---------------------------- MODULE Spec2Model ----------------------------
(***************************************************************************)
(* Model of the per-store purchase persistence layer of Sales-MCP:         *)
(*   mcp/src/services/purchase_service.py  (PurchaseService)               *)
(*   mcp/src/database/connection.py        (DatabaseService sessions)      *)
(*   mcp/src/core/tools/db_tools.py        (the MCP tools over the service)*)
(*                                                                         *)
(* Python strings that the code trims or lower-cases are tuples of         *)
(* one-character strings, so that strip() and lower() are computed.        *)
(* The relational store is a map from table name to a set of rows; a row   *)
(* written by an INSERT is private to its session until the commit.        *)
(***************************************************************************)
EXTENDS Integers, Sequences, FiniteSets, TLC

(***************************************************************************)
(* Bounds of the model                                                     *)
(***************************************************************************)
\* total number of service calls started in one behaviour
MaxCalls == 3
\* rows beyond MAX_LIMIT that the largest pre-filled table of SpecRead holds
ExtraRows == 2

(***************************************************************************)
(* Python values                                                           *)
(***************************************************************************)
\* None, where a string is expected: a tuple no string of the model equals
PyNone == <<"<None>">>

\* str(x): the text of a value; str(None) is the four letters None
PyStr(x) == IF x = PyNone THEN <<"N", "o", "n", "e">> ELSE x

\* truthiness of a string-or-None value: None and "" are falsy
Truthy(x) == x # PyNone /\ x # <<>>

IsSpace(c) == c = " "

\* str.lower() on the letters the inputs use
LowerChar(c) ==
  CASE c = "F" -> "f"
    [] c = "D" -> "d"
    [] c = "X" -> "x"
    [] OTHER -> c

Lower(s) == [i \in 1..Len(s) |-> LowerChar(s[i])]

RECURSIVE LStrip(_)
LStrip(s) == IF s # <<>> /\ IsSpace(Head(s)) THEN LStrip(Tail(s)) ELSE s

RECURSIVE RStrip(_)
RStrip(s) ==
  IF s # <<>> /\ IsSpace(s[Len(s)]) THEN RStrip(SubSeq(s, 1, Len(s) - 1)) ELSE s

\* str.strip()
Strip(s) == RStrip(LStrip(s))

Min(a, b) == IF a <= b THEN a ELSE b
Max(a, b) == IF a >= b THEN a ELSE b

(***************************************************************************)
(* Static configuration                                                    *)
(***************************************************************************)
StoreKey ==
  <<"4", "f", "2", "2", "d", "f", "5", "4", "9", "4", "2", "8", "9", "8", "f", "1">>

DefaultKey == <<"d", "e", "f", "a", "u", "l", "t">>

\* the physical tables of the database; only the first is a sales table
TableNames == {"ventas_mauricio", "product_sales", "users"}

\* a wrong map: a "default" entry that catches every unknown store
STORE_TABLE_MAP_WithDefault ==
  [k \in {StoreKey, DefaultKey} |->
     IF k = StoreKey THEN "ventas_mauricio" ELSE "product_sales"]

\* PurchaseService.STORE_TABLE_MAP
STORE_TABLE_MAP == [k \in {StoreKey} |-> "ventas_mauricio"]

\* dict.get(key): the value, or None (modelled as the empty name "")
MapGet(m, k) == IF k \in DOMAIN m THEN m[k] ELSE ""

\* a wrong key: trimmed, but compared as it was written
NormalizeStoreId_NoLower(store_id) ==
  Strip(IF Truthy(store_id) THEN store_id ELSE <<>>)

\* key = (store_id or "").strip().lower()
NormalizeStoreId(store_id) ==
  Lower(Strip(IF Truthy(store_id) THEN store_id ELSE <<>>))

\* a wrong resolver: an unknown store falls through to a shared table
resolve_table_name_Fallthrough(store_id) ==
  LET t == MapGet(STORE_TABLE_MAP, NormalizeStoreId(store_id))
  IN IF t # "" THEN t ELSE "users"

\* PurchaseService.resolve_table_name: the table name, or "" when the code
\* raises PurchaseServiceError(status_code=400)
resolve_table_name(store_id) ==
  LET key == NormalizeStoreId(store_id)
      first == MapGet(STORE_TABLE_MAP, key)
  IN IF first # "" THEN first ELSE MapGet(STORE_TABLE_MAP, DefaultKey)

\* the fields save_purchase requires, in the order the code lists them
required ==
  <<"total_amount", "client_phone", "client_full_name", "client_document",
    "client_address", "client_city", "client_email", "products">>

\* a wrong check: the last required field is not looked at
MissingFields_SkipLast(purchase) ==
  {required[i] : i \in {j \in 1..(Len(required) - 1) : required[j] \notin DOMAIN purchase}}

\* missing = [k for k in required if k not in purchase]
MissingFields(purchase) ==
  {required[i] : i \in {j \in 1..Len(required) : required[j] \notin DOMAIN purchase}}

\* f"Faltan campos requeridos: {', '.join(missing)}"
MissingMessage(purchase) ==
  <<"Faltan campos requeridos: ">> \o
  SelectSeq(required, LAMBDA k : k \notin DOMAIN purchase)

\* the message of the resolver's error
NoTableMessage == <<"No hay tabla configurada para el store_id dado">>

\* the message of the error raised when the read-back finds no row
NoReadBackMessage == <<"No fue posible leer la compra recien guardada">>

\* the message of DatabaseError when no session can be created
NoSessionMessage == <<"Could not create database session">>

\* str() of an exception of the driver or of SQLAlchemy: the statement and
\* the driver's text
StorageMessage == <<"(sqlalchemy) statement failed">>

\* str() of the ValueError float() raises on text
FloatMessage(x) == <<"could not convert string to float: ">> \o x.str

\* float(x) succeeds on a number and raises on text that is no number
Floatable(x) == "num" \in DOMAIN x
Float(x) == x.num

\* the client_json object save_purchase builds
ClientJson(purchase) ==
  [direccion |-> Strip(PyStr(purchase["client_address"])),
   ciudad |-> Strip(PyStr(purchase["client_city"])),
   cedula |-> Strip(PyStr(purchase["client_document"])),
   nombre_completo |-> Strip(PyStr(purchase["client_full_name"])),
   celular |-> Strip(PyStr(purchase["client_phone"])),
   correo |-> IF Truthy(purchase["client_email"])
              THEN Lower(Strip(PyStr(purchase["client_email"])))
              ELSE PyNone]

\* a wrong binding: the phone is stored as passed, not trimmed
InsertedRow_NoStrip(id, now, purchase) ==
  [id |-> id,
   client_phone |-> PyStr(purchase["client_phone"]),
   created_at |-> now,
   updated_at |-> now,
   total_amount |-> Float(purchase["total_amount"]),
   products |-> purchase["products"],
   client_json |-> ClientJson(purchase)]

\* the row the INSERT statement of save_purchase writes: id from the table's
\* sequence, both timestamps NOW(), the other columns from the bound params
InsertedRow(id, now, purchase) ==
  [id |-> id,
   client_phone |-> Strip(PyStr(purchase["client_phone"])),
   created_at |-> now,
   updated_at |-> now,
   total_amount |-> Float(purchase["total_amount"]),
   products |-> purchase["products"],
   client_json |-> ClientJson(purchase)]


(***************************************************************************)
(* SQL and result shaping                                                  *)
(***************************************************************************)
\* upper clamp of get_purchases' limit
MAX_LIMIT == 200
\* defaults of get_purchases' parameters
DEFAULT_LIMIT == 50
DEFAULT_OFFSET == 0

\* the ids of a set of rows, and the row of a set that carries an id
Ids(rows) == {r.id : r \in rows}
RowById(rows, id) == CHOOSE r \in rows : r.id = id

\* the largest and the smallest of a non-empty set of ids
MaxOf(ids) == CHOOSE k \in ids : \A j \in ids : j <= k
MinOf(ids) == CHOOSE k \in ids : \A j \in ids : k <= j

\* the rows whose id lies in lo..hi, from the highest id down; the range
\* is halved at each step
RECURSIVE ScanDown(_, _, _, _)
ScanDown(rows, ids, hi, lo) ==
  IF hi < lo THEN <<>>
  ELSE IF hi = lo THEN (IF hi \in ids THEN <<RowById(rows, hi)>> ELSE <<>>)
  ELSE LET mid == (lo + hi) \div 2
       IN ScanDown(rows, ids, hi, mid + 1) \o ScanDown(rows, ids, mid, lo)

\* the rows whose id lies in lo..hi, from the lowest id up
RECURSIVE ScanUp(_, _, _, _)
ScanUp(rows, ids, lo, hi) ==
  IF hi < lo THEN <<>>
  ELSE IF hi = lo THEN (IF lo \in ids THEN <<RowById(rows, lo)>> ELSE <<>>)
  ELSE LET mid == (lo + hi) \div 2
       IN ScanUp(rows, ids, lo, mid) \o ScanUp(rows, ids, mid + 1, hi)

\* a wrong order: ascending ids
OrderByIdDesc_Ascending(rows) ==
  IF rows = {} THEN <<>>
  ELSE ScanUp(rows, Ids(rows), MinOf(Ids(rows)), MaxOf(Ids(rows)))

\* ORDER BY id DESC over the rows of a table (id is the table's key)
OrderByIdDesc(rows) ==
  IF rows = {} THEN <<>>
  ELSE ScanDown(rows, Ids(rows), MaxOf(Ids(rows)), MinOf(Ids(rows)))

\* a wrong slice: one row more than the limit
LimitOffset_OneMore(ordered, limit, offset) ==
  SubSeq(ordered, offset + 1, Min(Len(ordered), offset + limit + 1))

\* LIMIT :limit OFFSET :offset over an ordered result
LimitOffset(ordered, limit, offset) ==
  SubSeq(ordered, offset + 1, Min(Len(ordered), offset + limit))

\* a wrong statement: the rows read are taken out of the table, as by
\* DELETE ... RETURNING
AfterSelect_Consuming(database, table, rows) ==
  [database EXCEPT ![table] = @ \ rows]

\* the tables after a SELECT over a table returned these rows: a SELECT
\* writes nothing
AfterSelect(database, table, rows) == database

\* a wrong read-back: the oldest row instead of the latest
ReadBack_Oldest(rows) == LimitOffset(OrderByIdDesc_Ascending(rows), 1, 0)

\* the read-back of save_purchase: ORDER BY id DESC LIMIT 1
ReadBack(rows) == LimitOffset(OrderByIdDesc(rows), 1, 0)

\* a wrong clamp: no upper bound on limit
ClampLimit_NoCap(limit) == Max(1, limit)

\* limit = max(1, min(limit, 200))
ClampLimit(limit) == Max(1, Min(limit, MAX_LIMIT))

\* a wrong clamp: the offset is dropped, every page starts at the top
ClampOffset_Zero(offset) == offset - offset

\* a wrong clamp: the offset is passed through
ClampOffset_PassThrough(offset) == offset

\* offset = max(0, offset)
ClampOffset(offset) == Max(0, offset)

\* datetime.isoformat(): a text, no longer a datetime
IsoFormat(t) == [iso |-> t]

\* dict(row._mapping), the two datetimes as ISO-8601 text, plus "table"
RowToResult(row, table) ==
  [id |-> row.id,
   client_phone |-> row.client_phone,
   created_at |-> IsoFormat(row.created_at),
   updated_at |-> IsoFormat(row.updated_at),
   total_amount |-> row.total_amount,
   products |-> row.products,
   client_json |-> row.client_json,
   table |-> table]

(***************************************************************************)
(* Sessions (sqlmodel.Session behind DatabaseService.get_session_context)  *)
(***************************************************************************)
\* no session acquired
NoSession == [open |-> FALSE, pending |-> {}, log |-> <<>>]

\* DatabaseService.get_session: a fresh session
SessionOpen == [open |-> TRUE, pending |-> {}, log |-> <<"open">>]

\* session.exec(statement): the statement runs in the session's transaction
SessionExec(s, rows) ==
  [s EXCEPT !.pending = @ \cup rows, !.log = Append(@, "exec")]

\* session.commit(): the pending rows leave the session
SessionCommit(s) == [s EXCEPT !.pending = {}, !.log = Append(@, "commit")]

\* session.rollback(): the pending rows are dropped
SessionRollback(s) == [s EXCEPT !.pending = {}, !.log = Append(@, "rollback")]

\* session.close(): the connection goes back, an open transaction is dropped
SessionClose(s) ==
  [s EXCEPT !.open = FALSE, !.pending = {}, !.log = Append(@, "close")]

\* a wrong context manager: the session is closed only when the body raised
ContextExit_NoFinally(s, raised) ==
  IF raised THEN SessionClose(SessionRollback(s)) ELSE s

\* get_session_context after the yield: except -> rollback, finally -> close
ContextExit(s, raised) ==
  SessionClose(IF raised THEN SessionRollback(s) ELSE s)

\* a wrong commit: the committed rows replace the table's rows
ApplyCommit_Overwrite(database, pending) ==
  [t \in TableNames |->
     IF \E y \in pending : y.table = t
     THEN {x.row : x \in {y \in pending : y.table = t}}
     ELSE database[t]]

\* the rows a commit makes visible, table by table
ApplyCommit(database, pending) ==
  [t \in TableNames |->
     database[t] \cup {x.row : x \in {y \in pending : y.table = t}}]

\* a wrong session source: one session object shared by every caller, so
\* that a caller sees the rows other callers have not committed yet
SessionFor_Singleton(sessions, p) ==
  [sessions[p] EXCEPT
     !.pending = UNION {sessions[q].pending : q \in DOMAIN sessions}]

\* get_session(): every call gets a Session of its own
SessionFor(sessions, p) == sessions[p]

\* the rows of a table a session sees: committed ones and its own pending
Visible(database, s, table) ==
  database[table] \cup {x.row : x \in {y \in s.pending : y.table = table}}

(***************************************************************************)
(* Inputs                                                                  *)
(***************************************************************************)
PaddedUpperKey ==
  <<" ", "4", "F", "2", "2", "D", "F", "5", "4", "9", "4", "2", "8", "9", "8", "F", "1", " ">>

UnknownStore == <<"u", "n", "k", "n", "o", "w", "n">>

\* store ids the callers pass: the mapped store written with capitals and
\* padding, an unknown store, and the literal "default"
StoreIds == {PaddedUpperKey, UnknownStore, DefaultKey}

Without(f, keys) == [k \in (DOMAIN f) \ keys |-> f[k]]

Purchase1 ==
  [total_amount |-> [num |-> 100],
   client_phone |-> <<"3", "0", "0">>,
   client_full_name |-> <<"A", "n", "a">>,
   client_document |-> <<"1", "2">>,
   client_address |-> <<"C", "l", " ", "1">>,
   client_city |-> <<"c", "a", "l", "i">>,
   client_email |-> PyNone,
   products |-> <<[product_id |-> "p1", quantity |-> 2, unit_price |-> 50]>>]

Purchase2 ==
  [total_amount |-> [num |-> 25],
   client_phone |-> <<" ", "3", "1", " ">>,
   client_full_name |-> <<" ", "X", "i">>,
   client_document |-> <<"9">>,
   client_address |-> <<"K", "r", " ">>,
   client_city |-> PyNone,
   client_email |-> <<" ", "X", "@", "f", " ">>,
   products |-> <<[product_id |-> "p1", quantity |-> 1, unit_price |-> 5],
                  [product_id |-> "p2", quantity |-> 2, unit_price |-> 10]>>]

PurchaseBadTotal == [Purchase1 EXCEPT !["total_amount"] = [str |-> <<"a", "b">>]]

Purchases ==
  {Purchase1, Purchase2, PurchaseBadTotal,
   Without(Purchase1, {"products"}),
   Without(Purchase2, {"client_email", "total_amount"})}

\* (limit, offset) pairs of the calls interleaved with writers
Pages ==
  {<<DEFAULT_LIMIT, DEFAULT_OFFSET>>, <<1, 1>>, <<-1, -1>>, <<MAX_LIMIT + 1, 2>>}

\* limits and offsets of the calls against the pre-filled tables
Limits == {-1, 0, 1, 2, DEFAULT_LIMIT, MAX_LIMIT, MAX_LIMIT + 1}
Offsets == {-1, DEFAULT_OFFSET, 1, 2}

Procs == {"A", "B"}

(***************************************************************************)
(* State                                                                   *)
(***************************************************************************)
VARIABLES
  db,          \* table name -> set of committed rows
  seq,         \* table name -> next value of the table's id sequence
  clock,       \* the database's NOW(), advanced by every INSERT
  pc,          \* caller -> position inside its current call
  args,        \* caller -> arguments and locals of its current call
  sess,        \* caller -> the session of its current call
  result,      \* caller -> what its last call returned or raised
  calls,       \* number of calls started so far
  own,         \* caller -> id of the row its current call inserted, 0 if none
  stmtTable,   \* caller -> table named by the last statement of its call
  interfered,  \* caller -> another caller inserted into the same table
               \*           between this call's INSERT and its read-back
  overtaken,   \* caller -> another caller's INSERT into the same table was
               \*           committed between this call's commit and its
               \*           read-back
  committed,   \* table name -> number of INSERTs committed by save_purchase
  savedOk,     \* table name -> number of save_purchase calls that returned
  readAt,      \* caller -> when the last SELECT of its call ran: how many
               \*           commits its table had seen and how many INSERTs
               \*           (next value of the id sequence), -1 if none ran
  prev,        \* caller -> the page of an earlier get_purchases it kept
  reply,       \* caller -> what the tool of its last call answered
  whatsapp,    \* the WhatsApp sender: requests posted, its last call
  orders,      \* the order tools: the customer's latest order, the last call
  product,     \* one Product object: its stock, its last call
  schema       \* the database schema: environment, tables, the last call

\* the state of the purchase engine and of its tools
purchases ==
  <<db, seq, clock, pc, args, sess, result, calls, own, stmtTable, interfered,
    overtaken, committed, savedOk, readAt, prev, reply>>

\* the state of the components that do not touch the sales tables
others == <<whatsapp, orders, product, schema>>

vars == <<purchases, others>>

NoArgs ==
  [op |-> "none", store_id |-> <<>>, purchase |-> <<>>, limit |-> 0,
   offset |-> 0, table |-> "", qlimit |-> 0, qoffset |-> 0,
   tool |-> "", input |-> <<>>]

NoResult ==
  [kind |-> "none", exc |-> "", status_code |-> 0, message |-> <<>>,
   value |-> <<>>]

\* a normal return
Return(v) ==
  [kind |-> "return", exc |-> "", status_code |-> 0, message |-> <<>>,
   value |-> v]

\* a wrong raise: the error is swallowed and the call returns nothing
Raise_Swallowed(exc, status, message) ==
  [kind |-> "return", exc |-> "", status_code |-> status - status,
   message |-> <<>>, value |-> <<>>]

\* an exception leaving the call; status_code 0: the class carries none
Raise(exc, status, message) ==
  [kind |-> "raise", exc |-> exc, status_code |-> status, message |-> message,
   value |-> <<>>]

\* the call was made on the service itself, or its tool has not answered
NoReply == [none |-> TRUE]

\* a wrong handler: every service error is answered as an internal error
ToolWrap_Internal(tool, r) ==
  IF tool = "" THEN NoReply
  ELSE IF r.kind = "return"
  THEN IF tool = "register_product_sale"
       THEN [success |-> TRUE, sale |-> r.value]
       ELSE [success |-> TRUE, purchases |-> r.value]
  ELSE [success |-> FALSE, error |-> <<"Internal error">>, status_code |-> 500]

\* what a tool answers when its PurchaseService call ended with r:
\* db_tools.py 132-147 and 166-170
ToolWrap(tool, r) ==
  IF tool = "" THEN NoReply
  ELSE IF r.kind = "return"
  THEN IF tool = "register_product_sale"
       THEN [success |-> TRUE, sale |-> r.value]
       ELSE [success |-> TRUE, purchases |-> r.value]
  ELSE IF r.exc = "PurchaseServiceError"
  THEN [success |-> FALSE, error |-> r.message, status_code |-> r.status_code]
  ELSE [success |-> FALSE, error |-> r.message]

\* no SELECT has run
NoRead == [commits |-> -1, inserts |-> -1]

\* the point in the history of a table at which a SELECT over it runs
ReadPoint(table) == [commits |-> committed[table], inserts |-> seq[table]]

\* the caller keeps no earlier page
NoPrev ==
  [table |-> "", store_id |-> <<>>, limit |-> 0, offset |-> 0, qlimit |-> 0,
   qoffset |-> 0, value |-> <<>>, readAt |-> NoRead]

(***************************************************************************)
(* The components beside the purchase engine, before their first call      *)
(***************************************************************************)
\* None, as an argument that may be of any type
None == [none |-> TRUE]

\* no request was sent, so nothing came back
NoOutcome == [kind |-> "none", status_code |-> 0, json |-> FALSE, body |-> ""]

\* WhatsAppService and its tools: no request posted, no call made
NoWhatsApp ==
  [posts |-> <<>>, op |-> "none", tool |-> "", phone |-> None, url |-> None,
   outcome |-> NoOutcome, result |-> NoResult, reply |-> NoReply]

\* the order tools: server.py not imported yet, the customer has no order,
\* no mutating call was made on the order service, no tool was called
NoOrders ==
  [available |-> "unknown", latest |-> None, mutations |-> <<>>,
   tool |-> "none", reply |-> "none"]

\* no Product object built yet
NoProduct ==
  [built |-> FALSE, stock_quantity |-> 0, stamps |-> 0, op |-> "none",
   quantity |-> 0, raised |-> FALSE]

\* the settings not loaded, no table of the models created, no call made
NoSchema ==
  [environment |-> "unset", tables |-> {}, op |-> "none", issued |-> {},
   error |-> ""]

OthersIdle ==
  /\ whatsapp = NoWhatsApp
  /\ orders = NoOrders
  /\ product = NoProduct
  /\ schema = NoSchema

Init ==
  /\ db = [t \in TableNames |-> {}]
  /\ seq = [t \in TableNames |-> 1]
  /\ clock = 1
  /\ pc = [p \in Procs |-> "idle"]
  /\ args = [p \in Procs |-> NoArgs]
  /\ sess = [p \in Procs |-> NoSession]
  /\ result = [p \in Procs |-> NoResult]
  /\ calls = 0
  /\ own = [p \in Procs |-> 0]
  /\ stmtTable = [p \in Procs |-> ""]
  /\ interfered = [p \in Procs |-> FALSE]
  /\ overtaken = [p \in Procs |-> FALSE]
  /\ committed = [t \in TableNames |-> 0]
  /\ savedOk = [t \in TableNames |-> 0]
  /\ readAt = [p \in Procs |-> NoRead]
  /\ prev = [p \in Procs |-> NoPrev]
  /\ reply = [p \in Procs |-> NoReply]
  /\ OthersIdle

\* a caller is free to start a call
Free(p) == pc[p] \in {"idle", "done"} /\ calls < MaxCalls

\* what every call start resets
StartCall(p, a) ==
  /\ args' = [args EXCEPT ![p] = a]
  /\ calls' = calls + 1
  /\ own' = [own EXCEPT ![p] = 0]
  /\ stmtTable' = [stmtTable EXCEPT ![p] = ""]
  /\ interfered' = [interfered EXCEPT ![p] = FALSE]
  /\ overtaken' = [overtaken EXCEPT ![p] = FALSE]
  /\ readAt' = [readAt EXCEPT ![p] = NoRead]
  /\ UNCHANGED <<prev, others>>

\* the service call of p, made by this tool ("": by none), ends with outcome
\* r and session s, and the tool answers
FinishAs(p, tool, r, s) ==
  /\ pc' = [pc EXCEPT ![p] = "done"]
  /\ result' = [result EXCEPT ![p] = r]
  /\ sess' = [sess EXCEPT ![p] = s]
  /\ reply' = [reply EXCEPT ![p] = ToolWrap(tool, r)]

\* the same in a later step of the call
Finish(p, r, s) == FinishAs(p, args[p].tool, r, s)

\* the call of p has its session and goes on at this label
Continue(p, label) ==
  /\ pc' = [pc EXCEPT ![p] = label]
  /\ sess' = [sess EXCEPT ![p] = SessionOpen]
  /\ result' = [result EXCEPT ![p] = NoResult]
  /\ reply' = [reply EXCEPT ![p] = NoReply]

(***************************************************************************)
(* PurchaseService.save_purchase                                           *)
(***************************************************************************)
\* lines 82-121: resolve, check the required fields, enter the session
\* context, build client_json and the bound parameters
SavePurchaseFrom(p, base, store_id, purchase) ==
  /\ Free(p)
  /\ LET table == resolve_table_name(store_id)
         a == [base EXCEPT !.op = "save_purchase", !.store_id = store_id,
                           !.purchase = purchase, !.table = table]
     IN /\ StartCall(p, a)
        /\ IF table = ""
           THEN FinishAs(p, a.tool,
                         Raise("PurchaseServiceError", 400, NoTableMessage),
                         NoSession)
           ELSE IF MissingFields(purchase) # {}
           THEN FinishAs(p, a.tool,
                         Raise("PurchaseServiceError", 422,
                               MissingMessage(purchase)),
                         NoSession)
           ELSE \E acquired \in BOOLEAN :
                  IF ~acquired
                  THEN FinishAs(p, a.tool,
                                Raise("DatabaseError", 500, NoSessionMessage),
                                NoSession)
                  ELSE IF ~Floatable(purchase["total_amount"])
                  THEN FinishAs(p, a.tool,
                                Raise("ValueError", 0,
                                      FloatMessage(purchase["total_amount"])),
                                ContextExit(SessionOpen, TRUE))
                  ELSE Continue(p, "sp_insert")
  /\ UNCHANGED <<db, seq, clock, committed, savedOk>>

\* a call made on the service itself
SavePurchaseCall(p, store_id, purchase) ==
  SavePurchaseFrom(p, NoArgs, store_id, purchase)

\* lines 122-127: session.exec(insert_sql, params)
SpInsert(p) ==
  /\ pc[p] = "sp_insert"
  /\ LET table == args[p].table
     IN \E ok \in BOOLEAN :
          /\ stmtTable' = [stmtTable EXCEPT ![p] = table]
          /\ IF ok
             THEN /\ LET row == InsertedRow(seq[table], clock, args[p].purchase)
                     IN sess' = [sess EXCEPT ![p] =
                                   SessionExec(@, {[table |-> table, row |-> row]})]
                  /\ seq' = [seq EXCEPT ![table] = @ + 1]
                  /\ clock' = clock + 1
                  /\ own' = [own EXCEPT ![p] = seq[table]]
                  /\ interfered' =
                       [q \in Procs |->
                          IF /\ q # p
                             /\ pc[q] \in {"sp_commit", "sp_select"}
                             /\ args[q].table = table
                          THEN TRUE ELSE interfered[q]]
                  /\ pc' = [pc EXCEPT ![p] = "sp_commit"]
                  /\ UNCHANGED <<result, reply>>
             ELSE \* the statement raised
                  /\ Finish(p, Raise("SQLAlchemyError", 0, StorageMessage),
                            ContextExit(SessionExec(sess[p], {}), TRUE))
                  /\ UNCHANGED <<seq, clock, own, interfered>>
  /\ UNCHANGED <<others, db, args, calls, overtaken, committed, savedOk,
                 readAt, prev>>

\* line 128: session.commit()
SpCommit(p) ==
  /\ pc[p] = "sp_commit"
  /\ \E ok \in BOOLEAN :
       IF ok
       THEN /\ db' = ApplyCommit(db, sess[p].pending)
            /\ committed' = [committed EXCEPT ![args[p].table] = @ + 1]
            /\ overtaken' =
                 [q \in Procs |->
                    IF /\ q # p
                       /\ pc[q] = "sp_select"
                       /\ args[q].table = args[p].table
                    THEN TRUE ELSE overtaken[q]]
            /\ sess' = [sess EXCEPT ![p] = SessionCommit(@)]
            /\ pc' = [pc EXCEPT ![p] = "sp_select"]
            /\ UNCHANGED <<result, reply>>
       ELSE /\ Finish(p, Raise("SQLAlchemyError", 0, StorageMessage),
                      ContextExit(sess[p], TRUE))
            /\ UNCHANGED <<db, committed, overtaken>>
  /\ UNCHANGED <<others, seq, clock, args, calls, own, stmtTable, interfered, savedOk,
                 readAt, prev>>

\* lines 130-150: read back the latest row, shape the result, leave the context
SpSelect(p) ==
  /\ pc[p] = "sp_select"
  /\ LET table == args[p].table
         s == SessionExec(sess[p], {})
         rows == ReadBack(Visible(db, SessionFor(sess, p), table))
     IN /\ stmtTable' = [stmtTable EXCEPT ![p] = table]
        /\ \E ok \in BOOLEAN :
             IF ~ok
             THEN /\ Finish(p, Raise("SQLAlchemyError", 0, StorageMessage),
                            ContextExit(s, TRUE))
                  /\ UNCHANGED savedOk
             ELSE IF rows = <<>>
             THEN /\ Finish(p, Raise("PurchaseServiceError", 500, NoReadBackMessage),
                            ContextExit(s, TRUE))
                  /\ UNCHANGED savedOk
             ELSE /\ Finish(p, Return(RowToResult(rows[1], table)),
                            ContextExit(s, FALSE))
                  /\ savedOk' = [savedOk EXCEPT ![table] = @ + 1]
        /\ db' = AfterSelect(db, table, {rows[i] : i \in 1..Len(rows)})
  /\ readAt' = [readAt EXCEPT ![p] = ReadPoint(args[p].table)]
  /\ UNCHANGED <<others, seq, clock, args, calls, own, interfered, overtaken,
                 committed, prev>>

(***************************************************************************)
(* PurchaseService.get_purchases                                           *)
(***************************************************************************)
\* lines 164-168: resolve, clamp, enter the session context
GetPurchasesFrom(p, base, store_id, limit, offset) ==
  /\ Free(p)
  /\ LET table == resolve_table_name(store_id)
         a == [base EXCEPT !.op = "get_purchases", !.store_id = store_id,
                           !.limit = limit, !.offset = offset, !.table = table,
                           !.qlimit = ClampLimit(limit),
                           !.qoffset = ClampOffset(offset)]
     IN IF table = ""
        THEN /\ StartCall(p, [a EXCEPT !.qlimit = 0, !.qoffset = 0])
             /\ FinishAs(p, a.tool,
                         Raise("PurchaseServiceError", 400, NoTableMessage),
                         NoSession)
        ELSE /\ StartCall(p, a)
             /\ \E acquired \in BOOLEAN :
                  IF ~acquired
                  THEN FinishAs(p, a.tool,
                                Raise("DatabaseError", 500, NoSessionMessage),
                                NoSession)
                  ELSE Continue(p, "gp_select")
  /\ UNCHANGED <<db, seq, clock, committed, savedOk>>

\* a call made on the service itself
GetPurchasesCall(p, store_id, limit, offset) ==
  GetPurchasesFrom(p, NoArgs, store_id, limit, offset)

\* lines 169-187: the paginated SELECT, the rows shaped, the context left
GpSelect(p) ==
  /\ pc[p] = "gp_select"
  /\ LET table == args[p].table
         s == SessionExec(sess[p], {})
         rows == LimitOffset(OrderByIdDesc(Visible(db, SessionFor(sess, p), table)),
                             args[p].qlimit, args[p].qoffset)
     IN /\ stmtTable' = [stmtTable EXCEPT ![p] = table]
        /\ \E ok \in BOOLEAN :
             IF ~ok
             THEN Finish(p, Raise("SQLAlchemyError", 0, StorageMessage),
                         ContextExit(s, TRUE))
             ELSE Finish(p, Return([i \in 1..Len(rows) |-> RowToResult(rows[i], table)]),
                         ContextExit(s, FALSE))
        /\ db' = AfterSelect(db, table, {rows[i] : i \in 1..Len(rows)})
  /\ readAt' = [readAt EXCEPT ![p] = ReadPoint(args[p].table)]
  /\ UNCHANGED <<others, seq, clock, args, calls, own, interfered, overtaken,
                 committed, savedOk,
                 prev>>

(***************************************************************************)
(* DatabaseService.health_check                                            *)
(***************************************************************************)
\* lines 210-214: enter the session context; a failure to do so is caught
HealthCheckCall(p) ==
  /\ Free(p)
  /\ StartCall(p, [NoArgs EXCEPT !.op = "health_check"])
  /\ \E acquired \in BOOLEAN :
       IF ~acquired
       THEN FinishAs(p, "", Return(FALSE), NoSession)
       ELSE Continue(p, "hc_exec")
  /\ UNCHANGED <<db, seq, clock, committed, savedOk>>

\* lines 215-220: SELECT 1, then True; any exception is caught and gives False
HcExec(p) ==
  /\ pc[p] = "hc_exec"
  /\ \E ok \in BOOLEAN :
       Finish(p, Return(ok), ContextExit(SessionExec(sess[p], {}), ~ok))
  /\ UNCHANGED <<others, db, seq, clock, args, calls, own, stmtTable, interfered,
                 overtaken,
                 committed, savedOk, readAt, prev>>

Next ==
  \E p \in Procs :
    \/ \E store_id \in StoreIds, purchase \in Purchases :
         SavePurchaseCall(p, store_id, purchase)
    \/ SpInsert(p)
    \/ SpCommit(p)
    \/ SpSelect(p)
    \/ \E store_id \in StoreIds, page \in Pages :
         GetPurchasesCall(p, store_id, page[1], page[2])
    \/ GpSelect(p)
    \/ HealthCheckCall(p)
    \/ HcExec(p)

Spec == Init /\ [][Next]_vars

(***************************************************************************)
(* Vocabulary of the properties                                            *)
(***************************************************************************)
\* the store id, trimmed and lower-cased, is no key of the static map
Unmapped(store_id) == NormalizeStoreId(store_id) \notin DOMAIN STORE_TABLE_MAP

\* the payload lacks at least one required field
LacksField(purchase) == \E i \in 1..Len(required) : required[i] \notin DOMAIN purchase

\* the last call of p was op and is over
Ended(p, op) == args[p].op = op /\ pc[p] = "done"

\* the last call of p was op and returned normally
Returned(p, op) == Ended(p, op) /\ result[p].kind = "return"

\* the last call of p ended with this exception and status
Failed(p, exc, status) ==
  /\ pc[p] = "done"
  /\ result[p].kind = "raise"
  /\ result[p].exc = exc
  /\ result[p].status_code = status

\* the call of p touched the database in no way: no session, no statement,
\* no row of its own
NoDatabaseIO(p) == sess[p] = NoSession /\ stmtTable[p] = "" /\ own[p] = 0

\* no caller is inside a call
Quiescent == \A p \in Procs : pc[p] \in {"idle", "done"}

\* the last call of p was a save_purchase whose INSERT statement raised
InsertRaised(p) ==
  /\ Ended(p, "save_purchase")
  /\ sess[p].log = <<"open", "exec", "rollback", "close">>
  /\ own[p] = 0

\* the call of p left the session context through an exception
LeftByException(p) ==
  \/ result[p].kind = "raise"
  \/ (args[p].op = "health_check" /\ result[p].value = FALSE)

(***************************************************************************)
(* C1  A save_purchase or get_purchases call whose store id, trimmed and   *)
(* lower-cased, is no key of the static map never gets past the resolver:  *)
(* it ends with PurchaseServiceError 400, with no session opened, no       *)
(* statement issued and no row written; and the step that starts a call    *)
(* leaves every table as it was.                                           *)
(***************************************************************************)
C1_UnknownStoreFailsClosed ==
  /\ [](\A p \in Procs :
          (args[p].op \in {"save_purchase", "get_purchases"}
             /\ Unmapped(args[p].store_id))
          => (Failed(p, "PurchaseServiceError", 400) /\ NoDatabaseIO(p)))
  /\ [][calls' # calls => db' = db]_vars

C1_Witness ==
  \E p, q \in Procs :
    /\ Ended(p, "save_purchase") /\ args[p].store_id = UnknownStore
    /\ Failed(p, "PurchaseServiceError", 400)
    /\ Ended(q, "get_purchases") /\ args[q].store_id = DefaultKey
    /\ Failed(q, "PurchaseServiceError", 400)
    /\ \E t \in TableNames : db[t] # {}

(***************************************************************************)
(* C2  As stated: every save_purchase call whose payload lacks a required  *)
(* field ends with the validation error (PurchaseServiceError 422) and     *)
(* did no database I/O.                                                    *)
(***************************************************************************)
C2_Original ==
  \A p \in Procs :
    (args[p].op = "save_purchase" /\ LacksField(args[p].purchase))
    => (Failed(p, "PurchaseServiceError", 422) /\ NoDatabaseIO(p))

(***************************************************************************)
(* C2  Amended: a save_purchase call whose payload lacks a required field  *)
(* is rejected before any session is opened, statement issued or row       *)
(* written; the error is the validation error 422 when the store id        *)
(* resolves to a table, and the resolver's error 400 when it does not      *)
(* (the resolver runs first).                                              *)
(***************************************************************************)
C2_MissingFieldRejectedBeforeIO ==
  \A p \in Procs :
    (args[p].op = "save_purchase" /\ LacksField(args[p].purchase))
    => /\ NoDatabaseIO(p)
       /\ Failed(p, "PurchaseServiceError",
                 IF Unmapped(args[p].store_id) THEN 400 ELSE 422)

C2_Witness ==
  \E p \in Procs :
    /\ Ended(p, "save_purchase")
    /\ ~Unmapped(args[p].store_id)
    /\ "products" \notin DOMAIN args[p].purchase
    /\ Failed(p, "PurchaseServiceError", 422)
    /\ db["ventas_mauricio"] # {}

(***************************************************************************)
(* C3  As stated: whenever no call is in progress, every table holds as    *)
(* many rows as save_purchase calls for it have returned successfully.     *)
(***************************************************************************)
C3_Original ==
  Quiescent => \A t \in TableNames : Cardinality(db[t]) = savedOk[t]

(***************************************************************************)
(* C3  Amended: every table holds as many rows as INSERTs of save_purchase *)
(* were committed into it, which is at least the number of calls that      *)
(* returned successfully (a call that fails after its commit leaves its    *)
(* row behind); a call that returned created exactly one row; and no step  *)
(* removes or changes a row that is in a table.                            *)
(***************************************************************************)
C3_RowsAreCommittedInserts ==
  /\ [](/\ \A t \in TableNames :
             /\ Cardinality(db[t]) = committed[t]
             /\ savedOk[t] <= committed[t]
        /\ \A p \in Procs :
             Returned(p, "save_purchase")
             => Cardinality({r \in db[args[p].table] : r.id = own[p]}) = 1)
  /\ [][\A t \in TableNames : db[t] \subseteq db'[t]]_vars

C3_Witness ==
  /\ Quiescent
  /\ Cardinality(db["ventas_mauricio"]) = 2
  /\ savedOk["ventas_mauricio"] = 1
  /\ \E p \in Procs : Returned(p, "get_purchases")

(***************************************************************************)
(* C4  As stated: a save_purchase call that returned, with no other        *)
(* writer's INSERT into its table between its INSERT and its read-back,    *)
(* returns its own row with client_phone, total_amount and products as     *)
(* they were passed in.                                                    *)
(***************************************************************************)
C4_Original ==
  \A p \in Procs :
    (Returned(p, "save_purchase") /\ ~interfered[p])
    => /\ result[p].value.id = own[p]
       /\ result[p].value.client_phone = args[p].purchase["client_phone"]
       /\ result[p].value.total_amount = Float(args[p].purchase["total_amount"])
       /\ result[p].value.products = args[p].purchase["products"]

(***************************************************************************)
(* C4  Amended: under the same condition the call returns the row it       *)
(* inserted, whose id is greater than every id in the table when it was    *)
(* inserted, with total_amount (as a float) and products as passed in and  *)
(* client_phone as passed in with surrounding whitespace trimmed.          *)
(***************************************************************************)
C4_ReadBackReturnsOwnRow ==
  /\ [](\A p \in Procs :
          (Returned(p, "save_purchase") /\ ~interfered[p])
          => /\ own[p] > 0
             /\ result[p].value.id = own[p]
             /\ result[p].value.client_phone =
                  Strip(PyStr(args[p].purchase["client_phone"]))
             /\ result[p].value.total_amount =
                  Float(args[p].purchase["total_amount"])
             /\ result[p].value.products = args[p].purchase["products"]
             /\ result[p].value.table = args[p].table)
  /\ [][\A p \in Procs :
          (own'[p] # own[p] /\ own'[p] # 0)
          => \A r \in db[args[p].table] : r.id < own'[p]]_vars

C4_Witness ==
  \E p \in Procs :
    /\ Returned(p, "save_purchase")
    /\ ~interfered[p]
    /\ args[p].purchase = Purchase2
    /\ result[p].value.id = own[p]
    /\ \E r \in db[args[p].table] : r.id < own[p]

(***************************************************************************)
(* C5  Whenever a save_purchase call reads back while its table holds a    *)
(* committed row with a higher id than the row the call inserted, the call *)
(* returns that latest row, not its own: another call's id, data and       *)
(* timestamps.  The witness is a state reached by two racing calls in      *)
(* which one call has returned the row the other inserted.                 *)
(***************************************************************************)
C5_RacingReadBackReturnsOtherRow ==
  [][\A p \in Procs :
       (/\ pc[p] = "sp_select"
        /\ pc'[p] = "done"
        /\ result'[p].kind = "return"
        /\ \E r \in db[args[p].table] : r.id > own[p])
       => LET rows == db[args[p].table]
              top == RowById(rows, MaxOf(Ids(rows)))
          IN /\ result'[p].value = RowToResult(top, args[p].table)
             /\ result'[p].value.id # own[p]
             /\ result'[p].value.created_at
                  # IsoFormat(RowById(rows, own[p]).created_at)]_vars

C5_Witness ==
  \E p, q \in Procs :
    /\ p # q
    /\ Returned(p, "save_purchase")
    /\ args[q].op = "save_purchase"
    /\ args[q].table = args[p].table
    /\ own[p] # 0 /\ own[q] # 0 /\ own[p] # own[q]
    /\ result[p].value.id = own[q]

(***************************************************************************)
(* C6  As stated: a save_purchase call whose INSERT raised in the storage  *)
(* layer was rolled back, left nothing pending, and ended with the         *)
(* service's typed error, PurchaseServiceError with status 500.  The code  *)
(* rolls back and closes but lets the storage exception through as it is.  *)
(***************************************************************************)
C6_InsertFailureIsPersistenceError ==
  \A p \in Procs :
    InsertRaised(p)
    => /\ sess[p].pending = {}
       /\ Failed(p, "PurchaseServiceError", 500)

(***************************************************************************)
(* C7  As stated: once a call has returned or raised, the session it       *)
(* acquired is closed, and the last thing done to it before the close was  *)
(* a commit or a rollback.                                                 *)
(***************************************************************************)
C7_Original ==
  \A p \in Procs :
    (pc[p] \in {"idle", "done"} /\ sess[p] # NoSession)
    => LET log == sess[p].log
       IN /\ ~sess[p].open
          /\ Len(log) >= 3
          /\ log[Len(log)] = "close"
          /\ log[Len(log) - 1] \in {"commit", "rollback"}

(***************************************************************************)
(* C7  Amended: once a call has returned or raised, the session it         *)
(* acquired is closed, exactly once and as the last thing done to it, and  *)
(* holds nothing pending.  When the call left through an exception the     *)
(* session was rolled back just before the close; when it returned         *)
(* normally the session was closed right after its last statement, with    *)
(* no commit or rollback in between (save_purchase commits its INSERT      *)
(* earlier, before the read-back).                                         *)
(***************************************************************************)
C7_SessionReleasedOnEveryExit ==
  \A p \in Procs :
    pc[p] \in {"idle", "done"}
    => /\ ~sess[p].open
       /\ sess[p].pending = {}
       /\ sess[p] # NoSession
          => LET log == sess[p].log
             IN /\ log[Len(log)] = "close"
                /\ Cardinality({i \in 1..Len(log) : log[i] = "close"}) = 1
                /\ log[Len(log) - 1] =
                     (IF LeftByException(p) THEN "rollback" ELSE "exec")

C7_Witness ==
  \E p, q \in Procs :
    /\ Returned(p, "save_purchase")
    /\ sess[p].log = <<"open", "exec", "commit", "exec", "close">>
    /\ Ended(q, "health_check")
    /\ result[q].value = FALSE
    /\ sess[q].log = <<"open", "exec", "rollback", "close">>

(***************************************************************************)
(* C8  The table named by every statement of a call, and by every row the  *)
(* call holds pending, is the value the static map gives for the call's    *)
(* store id (trimmed, lower-cased), which is a key of the map; and a table *)
(* changes only in the commit of a call whose store id maps to it.         *)
(***************************************************************************)
C8_TableComesFromStaticMap ==
  /\ [](\A p \in Procs :
          LET key == NormalizeStoreId(args[p].store_id)
              named == {stmtTable[p]} \cup {y.table : y \in sess[p].pending}
          IN \A t \in named \ {""} :
               /\ key \in DOMAIN STORE_TABLE_MAP
               /\ t = STORE_TABLE_MAP[key])
  /\ [][\A t \in TableNames :
          db'[t] # db[t]
          => \E p \in Procs :
               /\ pc[p] = "sp_commit"
               /\ pc'[p] = "sp_select"
               /\ ~Unmapped(args[p].store_id)
               /\ t = STORE_TABLE_MAP[NormalizeStoreId(args[p].store_id)]]_vars

C8_Witness ==
  \E p, q \in Procs :
    /\ args[p].op = "save_purchase"
    /\ args[p].store_id = PaddedUpperKey
    /\ stmtTable[p] = "ventas_mauricio"
    /\ sess[p].pending # {}
    /\ Returned(q, "get_purchases")
    /\ stmtTable[q] = "ventas_mauricio"
    /\ db["ventas_mauricio"] # {}

(***************************************************************************)
(* Reads against tables that earlier calls have filled                     *)
(***************************************************************************)
\* sizes of the sales table when the reads start
ReadSizes == {0, 1, 3, MAX_LIMIT + ExtraRows}

\* the id of the i-th row: every third value of the sequence was spent by
\* an INSERT that was rolled back
PrefilledId(i) == i + (i \div 2)

\* the i-th row earlier save_purchase calls left in the table
PrefilledRow(i) ==
  InsertedRow(PrefilledId(i), i, IF i % 2 = 0 THEN Purchase1 ELSE Purchase2)

Prefilled(n) ==
    /\ db = [t \in TableNames |->
               IF t = "ventas_mauricio" THEN {PrefilledRow(i) : i \in 1..n} ELSE {}]
    /\ seq = [t \in TableNames |->
                IF t = "ventas_mauricio" THEN PrefilledId(n) + 1 ELSE 1]
    /\ clock = n + 1
    /\ committed = [t \in TableNames |-> IF t = "ventas_mauricio" THEN n ELSE 0]
    /\ savedOk = [t \in TableNames |-> IF t = "ventas_mauricio" THEN n ELSE 0]
    /\ pc = [p \in Procs |-> "idle"]
    /\ args = [p \in Procs |-> NoArgs]
    /\ sess = [p \in Procs |-> NoSession]
    /\ result = [p \in Procs |-> NoResult]
    /\ calls = 0
    /\ own = [p \in Procs |-> 0]
    /\ stmtTable = [p \in Procs |-> ""]
    /\ interfered = [p \in Procs |-> FALSE]
    /\ overtaken = [p \in Procs |-> FALSE]
    /\ readAt = [p \in Procs |-> NoRead]
    /\ prev = [p \in Procs |-> NoPrev]
    /\ reply = [p \in Procs |-> NoReply]
    /\ OthersIdle

InitRead == \E n \in ReadSizes : Prefilled(n)

\* one reader, every limit and offset
NextRead ==
  \/ \E store_id \in StoreIds, limit \in Limits, offset \in Offsets :
       GetPurchasesCall("A", store_id, limit, offset)
  \/ GpSelect("A")

SpecRead == InitRead /\ [][NextRead]_vars

(***************************************************************************)
(* C9  get_purchases queries with limit clamped into 1..200 (a limit in    *)
(* that range is kept) and offset clamped to at least 0 (an offset >= 0 is *)
(* kept, a negative one becomes 0); what it returns is never longer than   *)
(* 200 nor longer than max(1, limit), and with a negative offset it starts *)
(* at the table's highest id, as with offset 0.                            *)
(***************************************************************************)
C9_LimitAndOffsetClamped ==
  \A p \in Procs :
    (args[p].op = "get_purchases" /\ ~Unmapped(args[p].store_id))
    => LET a == args[p]
       IN /\ a.qlimit \in 1..200
          /\ a.limit \in 1..200 => a.qlimit = a.limit
          /\ a.qoffset >= 0
          /\ a.qoffset = (IF a.offset < 0 THEN 0 ELSE a.offset)
          /\ Returned(p, "get_purchases")
             => /\ Len(result[p].value) <= 200
                /\ Len(result[p].value) <= Max(1, a.limit)
                /\ (a.offset < 0 /\ db[a.table] # {})
                   => result[p].value[1].id = MaxOf(Ids(db[a.table]))

C9_Witness ==
  \E p \in Procs :
    /\ Returned(p, "get_purchases")
    /\ args[p].limit = 201
    /\ args[p].offset = -1
    /\ Cardinality(db[args[p].table]) > 200
    /\ Len(result[p].value) = 200

(***************************************************************************)
(* C10  What get_purchases returns is in strictly descending id order, and *)
(* its i-th entry is the row of the table that has exactly offset + i - 1  *)
(* rows with a higher id (offset and limit as clamped); it has             *)
(* min(limit, rows left after the offset) entries.                         *)
(***************************************************************************)
C10_PageIsSliceOfDescendingOrder ==
  \A p \in Procs :
    Returned(p, "get_purchases")
    => LET rows == db[args[p].table]
           ids == Ids(rows)
           res == result[p].value
       IN /\ Len(res) =
               Min(args[p].qlimit, Max(0, Cardinality(rows) - args[p].qoffset))
          /\ \A i \in 1..(Len(res) - 1) : res[i].id > res[i + 1].id
          /\ \A i \in 1..Len(res) :
               /\ res[i].id \in ids
               /\ res[i] = RowToResult(RowById(rows, res[i].id), args[p].table)
               /\ Cardinality({k \in ids : k > res[i].id})
                    = args[p].qoffset + i - 1

C10_Witness ==
  \E p \in Procs :
    /\ Returned(p, "get_purchases")
    /\ args[p].qoffset = 2
    /\ Len(result[p].value) = 50
    /\ Cardinality(db[args[p].table]) > 52
    /\ result[p].value[1].id > result[p].value[50].id


(***************************************************************************)
(* Paging through a table while other callers write                        *)
(***************************************************************************)
\* rows of the largest pre-filled table of SpecPages
PageRows == 3

\* (limit, offset) pairs of the pages read
PagePairs == {<<1, 0>>, <<1, 1>>, <<2, 0>>, <<2, 2>>}

\* the page the last get_purchases of p returned
PageOf(p) ==
  [table |-> args[p].table, store_id |-> args[p].store_id,
   limit |-> args[p].limit, offset |-> args[p].offset,
   qlimit |-> args[p].qlimit, qoffset |-> args[p].qoffset,
   value |-> result[p].value, readAt |-> readAt[p]]

\* the caller keeps the page its get_purchases returned
KeepPage(p) ==
  /\ pc[p] = "done"
  /\ args[p].op = "get_purchases"
  /\ result[p].kind = "return"
  /\ prev[p] # PageOf(p)
  /\ prev' = [prev EXCEPT ![p] = PageOf(p)]
  /\ UNCHANGED <<others, db, seq, clock, pc, args, sess, result, calls, own, stmtTable,
                 interfered, overtaken, committed, savedOk, readAt, reply>>

InitPages == \E n \in 0..PageRows : Prefilled(n)

\* two callers page through the mapped store's table and add rows to it
NextPages ==
  \E p \in Procs :
    \/ \E page \in PagePairs :
         GetPurchasesCall(p, PaddedUpperKey, page[1], page[2])
    \/ GpSelect(p)
    \/ KeepPage(p)
    \/ SavePurchaseCall(p, PaddedUpperKey, Purchase1)
    \/ SpInsert(p)
    \/ SpCommit(p)
    \/ SpSelect(p)

SpecPages == InitPages /\ [][NextPages]_vars

\* number of rows of the set with a greater id than r
Rank(rows, r) == Cardinality({x \in rows : x.id > r.id})

\* p holds two pages of one table, read with no commit in between
SameTableAsRead(p) ==
  /\ Returned(p, "get_purchases")
  /\ prev[p].table = args[p].table
  /\ prev[p].readAt.commits = readAt[p].commits

\* ... the second page starting where the first one ends, and the table
\* still as both calls read it
ConsecutivePages(p) ==
  /\ SameTableAsRead(p)
  /\ prev[p].qoffset + prev[p].qlimit = args[p].qoffset
  /\ committed[args[p].table] = readAt[p].commits

(***************************************************************************)
(* C11  Two get_purchases calls of one caller for consecutive pages (the   *)
(* second offset is the first offset plus the first limit), with no commit *)
(* to the table between them, return pages that share no row and leave no  *)
(* gap: the first page followed by the second is strictly descending in    *)
(* id, and its i-th entry is the row with exactly offset + i - 1 rows of   *)
(* greater id; its length is what the table holds from that offset on, at  *)
(* most the two limits together.  With limit 1, offset 0 and then limit 1, *)
(* offset 1 on a table of two rows or more these are the two rows of       *)
(* highest id.  Starting at offset 0, pages that together are as long as   *)
(* the table hold every row of it exactly once.                            *)
(***************************************************************************)
C11_ConsecutivePagesPartition ==
  \A p \in Procs :
    ConsecutivePages(p) =>
      LET table == args[p].table
          rows == db[table]
          n == Cardinality(rows)
          both == prev[p].value \o result[p].value
          first == prev[p].qoffset
          span == prev[p].qlimit + args[p].qlimit
      IN /\ \A i, j \in 1..Len(both) : i < j => both[i].id > both[j].id
         /\ Len(both) = Max(0, Min(n - first, span))
         /\ \A i \in 1..Len(both) :
              \E r \in rows : /\ RowToResult(r, table) = both[i]
                              /\ Rank(rows, r) = first + i - 1
         /\ (prev[p].qlimit = 1 /\ first = 0 /\ args[p].qlimit = 1 /\ n >= 2) =>
              /\ Len(both) = 2
              /\ both[1].id = MaxOf(Ids(rows))
              /\ both[2].id = MaxOf(Ids(rows) \ {both[1].id})
         /\ (first = 0 /\ n <= span) =>
              /\ Len(both) = n
              /\ {both[i].id : i \in 1..Len(both)} = Ids(rows)

\* limit 1, offset 0 and then limit 1, offset 1, on a table of three rows one
\* of which a save_purchase added
C11_Witness ==
  \E p \in Procs :
    /\ ConsecutivePages(p)
    /\ prev[p].limit = 1 /\ prev[p].offset = 0
    /\ args[p].limit = 1 /\ args[p].offset = 1
    /\ Cardinality(db[args[p].table]) = 3
    /\ Len(prev[p].value) = 1 /\ Len(result[p].value) = 1
    /\ \E q \in Procs : own[q] = prev[p].value[1].id

(***************************************************************************)
(* C12  Two get_purchases calls of one caller with the same store_id,      *)
(* limit and offset return the same sequence of records whenever no        *)
(* save_purchase committed to the table between the two SELECTs; an INSERT *)
(* another caller has not committed yet makes no difference.               *)
(***************************************************************************)
C12_RepeatedReadReturnsSame ==
  \A p \in Procs :
    ( /\ SameTableAsRead(p)
      /\ prev[p].store_id = args[p].store_id
      /\ prev[p].limit = args[p].limit
      /\ prev[p].offset = args[p].offset )
    => result[p].value = prev[p].value

\* the same non-empty page read twice while another caller's INSERT waits
\* for its commit
C12_Witness ==
  \E p, q \in Procs :
    /\ SameTableAsRead(p)
    /\ prev[p].store_id = args[p].store_id
    /\ prev[p].limit = args[p].limit
    /\ prev[p].offset = args[p].offset
    /\ result[p].value # <<>>
    /\ pc[q] = "sp_commit"
    /\ args[q].table = args[p].table

(***************************************************************************)
(* C13  get_purchases writes nothing: every step of a get_purchases call,  *)
(* the one that starts it (and ends it at once when the store is unmapped  *)
(* or no session can be had) and the one that runs its SELECT (whether the *)
(* statement returns rows or raises), leaves every table exactly as it     *)
(* was, for every store_id, limit and offset.                              *)
(***************************************************************************)
C13_GetPurchasesLeavesTables ==
  [][ \A p \in Procs :
        ( \/ (pc[p] = "gp_select" /\ pc'[p] = "done")
          \/ ( /\ pc[p] \in {"idle", "done"}
               /\ calls' = calls + 1
               /\ args'[p].op = "get_purchases" ) )
        => db' = db ]_vars

\* over a table that holds a row, one get_purchases has returned it and
\* another one, for an unmapped store, has failed
C13_Witness ==
  \E p, q \in Procs :
    /\ Returned(p, "get_purchases")
    /\ result[p].value # <<>>
    /\ db[args[p].table] # {}
    /\ Ended(q, "get_purchases")
    /\ Failed(q, "PurchaseServiceError", 400)

(***************************************************************************)
(* C14  For a mapped store whose table is empty, or holds no more rows     *)
(* than the offset asked for, a get_purchases call that returns returns    *)
(* the empty sequence; having no row to return is never turned into an     *)
(* error: such a call raises only when no session can be had or the        *)
(* SELECT itself fails in the storage layer.                               *)
(***************************************************************************)
C14_NoRowsIsEmptyPage ==
  \A p \in Procs :
    ( /\ Ended(p, "get_purchases")
      /\ ~Unmapped(args[p].store_id)
      /\ Cardinality(db[args[p].table]) <= Max(0, args[p].offset) )
    => /\ result[p].kind = "return" => result[p].value = <<>>
       /\ result[p].kind = "raise" =>
            /\ result[p].exc \in {"DatabaseError", "SQLAlchemyError"}
            /\ result[p].exc = "SQLAlchemyError" <=> sess[p] # NoSession

\* an empty page from a table of one row read at an offset of one or more
C14_Witness ==
  \E p \in Procs :
    /\ Returned(p, "get_purchases")
    /\ Cardinality(db[args[p].table]) = 1
    /\ args[p].offset >= 1
    /\ result[p].value = <<>>

(***************************************************************************)
(* C15  When a save_purchase has returned and a get_purchases for the same *)
(* table with offset 0 runs its SELECT after that save's commit and before *)
(* any further INSERT into the table, the first entry of the page is the   *)
(* record the save_purchase inserted, it is the record the save_purchase   *)
(* returned, and no entry of the page has a higher id.                     *)
(***************************************************************************)
C15_SavedRecordIsFirstRead ==
  \A p, q \in Procs :
    ( /\ Returned(p, "save_purchase")
      /\ Returned(q, "get_purchases")
      /\ args[q].table = args[p].table
      /\ args[q].qoffset = 0
      /\ readAt[q].commits >= readAt[p].commits
      /\ readAt[q].inserts = own[p] + 1 )
    => /\ result[q].value # <<>>
       /\ result[q].value[1].id = own[p]
       /\ result[q].value[1] = result[p].value
       /\ \A i \in 1..Len(result[q].value) :
            result[q].value[i].id <= result[q].value[1].id

\* the save_purchase added a second row to the table and the page read
\* afterwards holds both
C15_Witness ==
  \E p, q \in Procs :
    /\ Returned(p, "save_purchase")
    /\ Returned(q, "get_purchases")
    /\ args[q].table = args[p].table
    /\ args[q].qoffset = 0
    /\ readAt[q].commits >= readAt[p].commits
    /\ readAt[q].inserts = own[p] + 1
    /\ Len(result[q].value) = 2
    /\ result[q].value[1].id = own[p]

(***************************************************************************)
(* The tools of mcp/src/core/tools/db_tools.py                             *)
(*                                                                         *)
(* Amounts of money are integers that count thousandths of the currency    *)
(* unit: 100005 is 100.005 and 100000 is 100.00.                           *)
(***************************************************************************)
\* None, where a number is expected
NoNumber == [none |-> TRUE]

DigitChars == <<"0", "1", "2", "3", "4", "5", "6", "7", "8", "9">>

IsDigit(c) == \E d \in 1..Len(DigitChars) : DigitChars[d] = c

DigitValue(c) == (CHOOSE d \in 1..Len(DigitChars) : DigitChars[d] = c) - 1

RECURSIVE ParseDigits(_, _)
ParseDigits(chars, acc) ==
  IF chars = <<>> THEN acc
  ELSE ParseDigits(Tail(chars), 10 * acc + DigitValue(Head(chars)))

\* int(x) raises ValueError on text that is no integer literal
IntRaises(x) ==
  /\ "str" \in DOMAIN x
  /\ (x.str = <<>> \/ \E i \in 1..Len(x.str) : ~IsDigit(x.str[i]))

\* int(x) on an integer or on the text of one
PyInt(x) == IF "num" \in DOMAIN x THEN x.num ELSE ParseDigits(x.str, 0)

RECURSIVE NatText(_)
NatText(n) ==
  IF n < 10 THEN <<DigitChars[n + 1]>>
  ELSE NatText(n \div 10) \o <<DigitChars[(n % 10) + 1]>>

\* the text of an integer inside an f-string
IntText(n) == IF n < 0 THEN <<"-">> \o NatText(-n) ELSE NatText(n)

\* the text of a number-or-None inside an f-string
NumberText(x) == IF x = NoNumber THEN <<"None">> ELSE IntText(x.num)

\* dict.get(key, default)
Get(d, key, default) == IF key \in DOMAIN d THEN d[key] ELSE default

\* json.loads on the texts the inputs use: "[]" is the empty list,
\* anything else here is no JSON
JsonLoads(text) ==
  IF text = <<"[", "]">> THEN [ok |-> TRUE, value |-> [list |-> <<>>]]
  ELSE [ok |-> FALSE, value |-> [other |-> TRUE]]

\* "item and isinstance(item, dict)": a dict that is not empty
IsDictItem(item) == "none" \notin DOMAIN item /\ DOMAIN item # {}

\* a wrong test of a line item: a quantity of zero passes
ItemAccepted_ZeroQuantity(pid, qty, unit_price) ==
  ~(pid = <<>> \/ qty < 0 \/ unit_price = NoNumber \/ unit_price.num < 0)

\* line 112, negated: the line item passes
ItemAccepted(pid, qty, unit_price) ==
  ~(pid = <<>> \/ qty <= 0 \/ unit_price = NoNumber \/ unit_price.num < 0)

\* a wrong amount: the quantity is left out
LineAmount_NoQuantity(unit_price, qty) == unit_price

\* line 115: the amount of one line, unit_price * qty
LineAmount(unit_price, qty) == unit_price * qty

\* the f-string of line 113
ItemMessage(i, pid, qty, unit_price) ==
  <<"Cada item debe incluir product_id (hash), quantity>0 y unit_price>=0.",
    " Item ">> \o IntText(i) \o <<": pid='">> \o pid \o <<"', qty=">> \o
  IntText(qty) \o <<", unit_price=">> \o NumberText(unit_price)

\* str() of the ValueError int() raises on text
IntMessage(x) == <<"invalid literal for int() with base 10: ">> \o x.str

\* lines 105-115: the loop over products_list from its i-th item (counted
\* from 1) on, with the items accepted and the amount added up so far
RECURSIVE ItemLoop(_, _, _, _)
ItemLoop(items, i, requested_items, total_amount) ==
  IF i > Len(items)
  THEN [kind |-> "accepted", items |-> requested_items, total |-> total_amount]
  ELSE LET item == items[i]
           isd == IsDictItem(item)
           pid == IF isd
                  THEN Strip(PyStr(Get(item, "product_id", <<>>)))
                  ELSE <<>>
           rawqty == Get(item, "quantity", [num |-> 0])
           qty == IF isd THEN PyInt(rawqty) ELSE 0
           rawprice == Get(item, "unit_price", NoNumber)
           unit_price == IF isd /\ rawprice # NoNumber /\ Floatable(rawprice)
                         THEN [num |-> Float(rawprice)]
                         ELSE NoNumber
       IN IF isd /\ IntRaises(rawqty)
          THEN [kind |-> "raised", exc |-> "ValueError",
                message |-> IntMessage(rawqty)]
          ELSE IF ~ItemAccepted(pid, qty, unit_price)
          THEN [kind |-> "rejected", index |-> i - 1,
                message |-> ItemMessage(i - 1, pid, qty, unit_price)]
          ELSE ItemLoop(items, i + 1,
                        Append(requested_items,
                               [product_id |-> pid, quantity |-> qty,
                                unit_price |-> unit_price.num]),
                        total_amount + LineAmount(unit_price.num, qty))

\* a tool answers a failure of its own: no status_code
ToolFailure(message) == [success |-> FALSE, error |-> message]

\* lines 120-129: the purchase register_product_sale hands to save_purchase
BuiltPurchase(input, requested_items, total_amount) ==
  [total_amount |-> [num |-> total_amount],
   client_phone |-> Strip(input.client_phone),
   client_full_name |-> Strip(input.client_full_name),
   client_document |-> Strip(input.client_document),
   client_address |-> Strip(input.client_address),
   client_city |-> Strip(input.client_city),
   client_email |-> IF Truthy(input.client_email)
                    THEN Lower(Strip(input.client_email))
                    ELSE PyNone,
   products |-> requested_items]

\* "not x or len(x.strip()) < n"
TooShort(x, n) == ~Truthy(x) \/ Len(Strip(x)) < n

\* lines 57-130 up to the call of save_purchase: either the tool answers a
\* failure itself (kind "reply") or it calls save_purchase (kind "call")
RegisterOutcome(input) ==
  LET products == input.products
      isstr == "str" \in DOMAIN products
      loaded == IF isstr THEN JsonLoads(products.str)
                ELSE [ok |-> TRUE, value |-> products]
      answer(message) == [kind |-> "reply", reply |-> ToolFailure(message)]
  IN IF isstr /\ ~loaded.ok
     THEN answer(<<"El campo 'products' debe ser un JSON valido">>)
     ELSE IF ~isstr /\ "list" \notin DOMAIN products
     THEN answer(<<"El campo 'products' debe ser una lista o JSON string">>)
     ELSE IF "list" \notin DOMAIN loaded.value \/ loaded.value.list = <<>>
     THEN answer(<<"Debe proporcionar una lista 'products' con al menos un item">>)
     ELSE IF TooShort(input.client_phone, 10)
     THEN answer(<<"El telefono del cliente es invalido (minimo 10 caracteres)">>)
     ELSE IF TooShort(input.client_address, 5)
     THEN answer(<<"La direccion del cliente es invalida (minimo 5 caracteres)">>)
     ELSE IF TooShort(input.client_full_name, 3)
     THEN answer(<<"El nombre completo es invalido">>)
     ELSE IF TooShort(input.client_document, 5)
     THEN answer(<<"La cedula es invalida">>)
     ELSE IF TooShort(input.client_city, 2)
     THEN answer(<<"La ciudad es invalida">>)
     ELSE LET loop == ItemLoop(loaded.value.list, 1, <<>>, 0)
          IN IF loop.kind = "accepted"
             THEN [kind |-> "call",
                   purchase |-> BuiltPurchase(input, loop.items, loop.total)]
             ELSE answer(loop.message)

\* register_product_sale, lines 57-147: the checks, then save_purchase
RegisterProductSaleCall(p, input) ==
  LET base == [NoArgs EXCEPT !.tool = "register_product_sale",
                             !.input = input]
      out == RegisterOutcome(input)
  IN IF out.kind = "call"
     THEN SavePurchaseFrom(p, base, input.store_id, out.purchase)
     ELSE /\ Free(p)
          /\ StartCall(p, base)
          /\ pc' = [pc EXCEPT ![p] = "done"]
          /\ result' = [result EXCEPT ![p] = NoResult]
          /\ sess' = [sess EXCEPT ![p] = NoSession]
          /\ reply' = [reply EXCEPT ![p] = out.reply]
          /\ UNCHANGED <<db, seq, clock, committed, savedOk>>

\* get_store_purchases, lines 164-170
GetStorePurchasesCall(p, store_id, limit, offset) ==
  GetPurchasesFrom(p,
                   [NoArgs EXCEPT !.tool = "get_store_purchases",
                                  !.input = [store_id |-> store_id,
                                             limit |-> limit,
                                             offset |-> offset]],
                   store_id, limit, offset)

(***************************************************************************)
(* Inputs of the tools                                                     *)
(***************************************************************************)
Item(pid, qty, unit_price) ==
  [product_id |-> pid, quantity |-> [num |-> qty],
   unit_price |-> [num |-> unit_price]]

GoodItem == Item(<<"p", "1">>, 2, 50000)

\* one line item of 100.005
FineItem == Item(<<" ", "p", "2">>, 1, 100005)

SaleInput(products) ==
  [store_id |-> PaddedUpperKey,
   client_phone |-> <<" ", "3", "0", "0", "1", "2", "3", "4", "5", "6", "7">>,
   client_full_name |-> <<"A", "n", "a">>,
   client_document |-> <<"1", "2", "3", "4", "5">>,
   client_address |-> <<"C", "l", " ", "1", "2">>,
   client_city |-> <<"c", "a", "l", "i">>,
   client_email |-> PyNone,
   products |-> products]

\* lists with a line item that must not pass, the first such item second
BadLists ==
  {<<GoodItem, Item(<<"p", "2">>, 0, 1000), Item(<<>>, 1, 1000)>>,
   <<GoodItem, Item(<<" ">>, 1, 1000)>>,
   <<GoodItem, Item(<<"p", "2">>, 1, -1000)>>,
   <<GoodItem, Without(FineItem, {"unit_price"})>>,
   <<GoodItem, [FineItem EXCEPT !.unit_price = [str |-> <<"x">>]]>>,
   <<GoodItem, Without(FineItem, {"product_id", "quantity", "unit_price"})>>,
   <<GoodItem, NoNumber>>}

GoodLists ==
  {<<GoodItem>>,
   <<FineItem>>,
   <<GoodItem, [FineItem EXCEPT !.quantity = [str |-> <<"1", "2">>]]>>}

SaleInputs ==
  {SaleInput([list |-> l]) : l \in BadLists \cup GoodLists} \cup
  {SaleInput([list |-> <<>>]),
   SaleInput([str |-> <<"[", "]">>]),
   SaleInput([str |-> <<"[">>]),
   SaleInput(NoNumber),
   SaleInput([list |-> <<[GoodItem EXCEPT !.quantity = [str |-> <<"x">>]]>>]),
   [SaleInput([list |-> <<GoodItem>>]) EXCEPT !.store_id = UnknownStore],
   [SaleInput([list |-> <<GoodItem>>]) EXCEPT
      !.client_email = <<" ", "X", "@", "f", " ">>],
   [SaleInput([list |-> <<Item(<<>>, 1, 1000)>>]) EXCEPT
      !.client_phone = <<"3", "0", "0">>],
   [SaleInput([list |-> <<GoodItem>>]) EXCEPT !.client_city = PyNone]}

\* a purchase with no line item, handed to the service itself
PurchaseNoItems == BuiltPurchase(SaleInput([list |-> <<>>]), <<>>, 0)

\* one client of the MCP server registers sales; another one lists the
\* purchases and calls the service without the tool
NextTool ==
  \/ \E input \in SaleInputs : RegisterProductSaleCall("A", input)
  \/ SavePurchaseCall("B", PaddedUpperKey, PurchaseNoItems)
  \/ \E store_id \in {PaddedUpperKey, UnknownStore} :
       GetStorePurchasesCall("B", store_id, DEFAULT_LIMIT, DEFAULT_OFFSET)
  \/ \E p \in Procs :
       \/ SpInsert(p)
       \/ SpCommit(p)
       \/ SpSelect(p)
       \/ GpSelect(p)

SpecTool == Init /\ [][NextTool]_vars

(***************************************************************************)
(* Vocabulary of the properties of the tools                               *)
(***************************************************************************)
\* the last call of p was made through this tool and is over
ToolEnded(p, tool) == args[p].tool = tool /\ pc[p] = "done"

\* the tool call of p never called a PurchaseService operation
NoServiceCall(p) == args[p].op = "none" /\ result[p] = NoResult

\* a line item of a stored products list is well-formed
WellFormedLine(line) ==
  line.product_id # <<>> /\ line.quantity > 0 /\ line.unit_price >= 0

\* a line item of the input has an empty product_id, a quantity <= 0, or a
\* missing, non-numeric or negative unit_price (or is no line item at all)
Offending(item) ==
  \/ ~IsDictItem(item)
  \/ Strip(PyStr(Get(item, "product_id", <<>>))) = <<>>
  \/ "quantity" \notin DOMAIN item
  \/ (~IntRaises(item.quantity) /\ PyInt(item.quantity) <= 0)
  \/ "unit_price" \notin DOMAIN item
  \/ "num" \notin DOMAIN item.unit_price
  \/ item.unit_price.num < 0

\* the quantity of the item is text that is no integer
OddQuantity(item) ==
  IsDictItem(item) /\ "quantity" \in DOMAIN item /\ IntRaises(item.quantity)

\* index, counted from 0, of the first offending item of a list that has one
FirstOffending(items) ==
  (CHOOSE i \in 1..Len(items) :
     Offending(items[i]) /\ \A j \in 1..(i - 1) : ~Offending(items[j])) - 1

\* the input is a list of line items one of which offends, and no item up to
\* the first offending one has a quantity that is no integer
ListWithOffending(input) ==
  /\ "list" \in DOMAIN input.products
  /\ \E i \in 1..Len(input.products.list) : Offending(input.products.list[i])
  /\ \A i \in 1..(FirstOffending(input.products.list) + 1) :
       ~OddQuantity(input.products.list[i])

\* every client field of the input passes its length check
ClientFieldsPass(input) ==
  /\ ~TooShort(input.client_phone, 10)
  /\ ~TooShort(input.client_address, 5)
  /\ ~TooShort(input.client_full_name, 3)
  /\ ~TooShort(input.client_document, 5)
  /\ ~TooShort(input.client_city, 2)

\* the failure names the item with this index (a single digit)
NamesItem(error, i) ==
  /\ Len(error) >= 4
  /\ error[2] = " Item "
  /\ <<error[3]>> = IntText(i)
  /\ error[4] = ": pid='"

\* sum of unit_price * quantity over the first n lines of a products list
RECURSIVE SumOfLines(_, _)
SumOfLines(lines, n) ==
  IF n = 0 THEN 0
  ELSE SumOfLines(lines, n - 1) + lines[n].unit_price * lines[n].quantity

\* ProductSale.validate_price_fields, models/sale.py 63-65: the decimal text
\* of the amount has more than two decimals
MoreThanTwoDecimals(v) == v % 10 # 0

(***************************************************************************)
(* C16  Every record in a tenant table has a products list that is not     *)
(* empty and in which every line item has a product_id that is not empty,  *)
(* a quantity > 0 and a unit_price >= 0.                                   *)
(***************************************************************************)
C16_PersistedProductsWellFormed ==
  \A t \in TableNames :
    \A row \in db[t] :
      /\ row.products # <<>>
      /\ \A i \in 1..Len(row.products) : WellFormedLine(row.products[i])

C18_TotalIsSumOfLines ==
  \A p \in Procs :
    (args[p].tool = "register_product_sale" /\ args[p].op = "save_purchase")
    => LET lines == args[p].purchase["products"]
           items == args[p].input.products.list
       IN /\ Float(args[p].purchase["total_amount"]) =
               SumOfLines(lines, Len(lines))
          /\ Len(lines) = Len(items)
          /\ \A i \in 1..Len(items) :
               /\ lines[i].quantity = PyInt(items[i].quantity)
               /\ lines[i].unit_price = items[i].unit_price.num

\* a sale of two lines, 2 x 50.000 and 12 x 100.005, has been stored with
\* the total 1300.060
C18_Witness ==
  \E p \in Procs :
    /\ ToolEnded(p, "register_product_sale")
    /\ reply[p].success
    /\ Len(reply[p].sale.products) = 2
    /\ reply[p].sale.total_amount = 1300060

(***************************************************************************)
(* C19  A save_purchase whose total_amount has more than two decimals      *)
(* writes no row and ends with PurchaseServiceError 422, and no record of  *)
(* a tenant table has a total_amount of more than two decimals.            *)
(***************************************************************************)
C19_ThreeDecimalsRejected ==
  /\ \A p \in Procs :
       ( /\ args[p].op = "save_purchase"
         /\ args[p].table # ""
         /\ ~LacksField(args[p].purchase)
         /\ Floatable(args[p].purchase["total_amount"])
         /\ MoreThanTwoDecimals(Float(args[p].purchase["total_amount"])) )
       => /\ own[p] = 0
          /\ pc[p] = "done" => Failed(p, "PurchaseServiceError", 422)
  /\ \A t \in TableNames :
       \A row \in db[t] : ~MoreThanTwoDecimals(row.total_amount)

(***************************************************************************)
(* C20  A tool answers success exactly when its PurchaseService call       *)
(* returned, and then hands on what the call returned; when the call       *)
(* raised PurchaseServiceError the answer is a failure with that error's   *)
(* message and status code; when it raised anything else the answer is a   *)
(* failure with the text of the exception.                                 *)
(***************************************************************************)
C20_ToolReportsServiceOutcome ==
  \A p \in Procs :
    (args[p].tool # "" /\ pc[p] = "done")
    => /\ reply[p].success <=> result[p].kind = "return"
       /\ result[p].kind = "return" =>
            \/ reply[p] = [success |-> TRUE, sale |-> result[p].value]
            \/ reply[p] = [success |-> TRUE, purchases |-> result[p].value]
       /\ (result[p].kind = "raise" /\ result[p].exc = "PurchaseServiceError")
            => reply[p] = [success |-> FALSE, error |-> result[p].message,
                           status_code |-> result[p].status_code]
       /\ (result[p].kind = "raise" /\ result[p].exc # "PurchaseServiceError")
            => reply[p] = [success |-> FALSE, error |-> result[p].message]

\* a sale was registered and stored, and a listing for an unmapped store
\* was answered with the resolver's error
C20_Witness ==
  \E p, q \in Procs :
    /\ ToolEnded(p, "register_product_sale")
    /\ reply[p].success
    /\ reply[p].sale.id = own[p]
    /\ ToolEnded(q, "get_store_purchases")
    /\ Failed(q, "PurchaseServiceError", 400)
    /\ reply[q].status_code = 400
    /\ reply[q].error = NoTableMessage

(***************************************************************************)
(* C21  Every answer of register_product_sale and get_store_purchases that *)
(* is a failure has exactly the keys success, error and status_code,       *)
(* whether the tool rejected its input, the service raised its typed error *)
(* or anything else was raised.                                            *)
(***************************************************************************)
C21_FailureHasStatusCode ==
  \A p \in Procs :
    (args[p].tool # "" /\ pc[p] = "done" /\ ~reply[p].success)
    => DOMAIN reply[p] = {"success", "error", "status_code"}


(***************************************************************************)
(* Resolution of store ids: the specification SpecResolve                  *)
(*                                                                         *)
(* Two callers save and read purchases under store ids that are the mapped *)
(* key as written, in capitals, padded with blanks, both, an unknown key   *)
(* and None; args[p].table keeps what resolve_table_name answered to the   *)
(* caller's latest call.                                                   *)
(***************************************************************************)
UpperKey == [i \in 1..Len(PaddedUpperKey) - 2 |-> PaddedUpperKey[i + 1]]

PaddedKey == <<" ">> \o StoreKey \o <<" ", " ">>

ResolveIds == {StoreKey, UpperKey, PaddedKey, PaddedUpperKey, UnknownStore, PyNone}

NextResolve ==
  \E p \in Procs :
    \/ \E store_id \in ResolveIds : SavePurchaseCall(p, store_id, Purchase1)
    \/ \E store_id \in ResolveIds :
         GetPurchasesCall(p, store_id, DEFAULT_LIMIT, DEFAULT_OFFSET)
    \/ SpInsert(p)
    \/ SpCommit(p)
    \/ SpSelect(p)
    \/ GpSelect(p)

SpecResolve == Init /\ [][NextResolve]_vars

\* p has called the service, whichever operation, with a store id
Resolved(p) == args[p].op \in {"save_purchase", "get_purchases"}

\* the store id as the claim compares it: blanks trimmed, letters lowered
Folded(store_id) == Lower(Strip(IF store_id = PyNone THEN <<>> ELSE store_id))

(***************************************************************************)
(* C22  resolve_table_name depends only on the trimmed, lower-cased store  *)
(* id: two calls, at whatever times and by whichever operation, whose      *)
(* store ids differ only in letter case or surrounding blanks resolve to   *)
(* the same table (or both to none), and the table a mapped store resolves *)
(* to is the same after any number of calls.                               *)
(***************************************************************************)
C22_ResolveDependsOnFoldedId ==
  \A p, q \in Procs :
    (Resolved(p) /\ Resolved(q)
       /\ Folded(args[p].store_id) = Folded(args[q].store_id))
    => args[p].table = args[q].table

C22_Witness ==
  /\ Resolved("A") /\ Resolved("B")
  /\ args["A"].store_id = StoreKey
  /\ args["B"].store_id = PaddedUpperKey
  /\ pc["A"] = "done" /\ pc["B"] = "done"
  /\ calls = MaxCalls
  /\ args["A"].table = "ventas_mauricio"
  /\ args["B"].table = "ventas_mauricio"


(***************************************************************************)
(* Rows lost before the read-back: the specification SpecLost              *)
(*                                                                         *)
(* The sales table lives in a PostgreSQL database that other clients       *)
(* write too.  Here one of them empties the table at any moment, which is  *)
(* the one way the read-back of save_purchase can find no row after its    *)
(* own commit.                                                             *)
(***************************************************************************)
\* another client of the database deletes every committed row of the table
ExternalDelete(table) ==
  /\ db[table] # {}
  /\ db' = [db EXCEPT ![table] = {}]
  /\ UNCHANGED <<others, seq, clock, pc, args, sess, result, calls, own, stmtTable,
                 interfered, overtaken, committed, savedOk, readAt, prev, reply>>

NextLost ==
  \/ \E p \in Procs :
       \/ \E purchase \in {Purchase1, Purchase2} :
            SavePurchaseCall(p, PaddedUpperKey, purchase)
       \/ SpInsert(p)
       \/ SpCommit(p)
       \/ SpSelect(p)
  \/ ExternalDelete(STORE_TABLE_MAP[StoreKey])

SpecLost == Init /\ [][NextLost]_vars

\* the read-back of p is about to run and no row is there for it to find
ReadBackFindsNone(p) ==
  /\ pc[p] = "sp_select"
  /\ Visible(db, sess[p], args[p].table) = {}

(***************************************************************************)
(* C23  When the read-back SELECT of save_purchase finds no row after the  *)
(* INSERT was committed, the call never returns: it ends with an           *)
(* exception, and unless the SELECT statement itself raised, that is the   *)
(* service's typed error with status 500 and the read-back message.        *)
(***************************************************************************)
C23_NoRowIsError500 ==
  [][\A p \in Procs :
       (ReadBackFindsNone(p) /\ pc'[p] = "done")
       => /\ result'[p].kind = "raise"
          /\ result'[p].exc # "SQLAlchemyError"
             => result'[p] = [kind |-> "raise", exc |-> "PurchaseServiceError",
                              status_code |-> 500,
                              message |-> NoReadBackMessage, value |-> <<>>]]_vars

C23_Witness ==
  \E p \in Procs :
    /\ Failed(p, "PurchaseServiceError", 500)
    /\ result[p].message = NoReadBackMessage
    /\ args[p].op = "save_purchase"
    /\ own[p] > 0
    /\ committed[args[p].table] > 0
    /\ db[args[p].table] = {}


(***************************************************************************)
(* WhatsAppService and the WhatsApp tools                                  *)
(*                                                                         *)
(* Arguments are tagged values: [str |-> characters], [num |-> n] or None. *)
(* A request posted is recorded in whatsapp.posts with its path and        *)
(* payload; what the transport or the server answers is drawn among the    *)
(* outcomes requests can produce.                                          *)
(***************************************************************************)
MaxPosts == 1

Text(chars) == [str |-> chars]

isinstance_str(v) == "str" \in DOMAIN v

\* truthiness of a tagged value: None, "" and 0 are falsy
Truth(v) ==
  IF "none" \in DOMAIN v THEN FALSE
  ELSE IF "str" \in DOMAIN v THEN v.str # <<>>
  ELSE v.num # 0

\* str.startswith
StartsWith(chars, prefix) ==
  Len(chars) >= Len(prefix) /\ SubSeq(chars, 1, Len(prefix)) = prefix

\* the message of an error the model does not spell out
SomeMessage == <<"...">>

\* a wrong normalisation: the phone goes out as it was given
normalize_phone_AsGiven(phone) ==
  IF ~Truth(phone)
  THEN Raise("WhatsAppServiceError", 422, <<"Phone number is required">>)
  ELSE Return(phone)

\* _normalize_phone, lines 67-71 (the phones of the inputs are str or None)
normalize_phone(phone) ==
  IF ~Truth(phone)
  THEN Raise("WhatsAppServiceError", 422, <<"Phone number is required">>)
  ELSE Return(IF StartsWith(phone.str, <<"+">>)
              THEN phone ELSE Text(<<"+">> \o phone.str))

\* _validate_public_url, lines 74-79
validate_public_url(url) ==
  IF ~Truth(url) \/ ~isinstance_str(url)
  THEN Raise("WhatsAppServiceError", 422, <<"Invalid URL">>)
  ELSE IF \/ StartsWith(url.str, <<"f", "i", "l", "e", ":">>)
          \/ StartsWith(url.str, <<"d", "a", "t", "a", ":">>)
  THEN Raise("WhatsAppServiceError", 415, <<"Unsupported URL scheme">>)
  ELSE Return(None)

\* the four senders: the path they post to and the timeout they use
SendOps == {"send_image", "send_audio", "send_video", "send_pdf"}

PathOf(op) ==
  CASE op = "send_image" -> "/api/send-image-url"
    [] op = "send_audio" -> "/api/send-audio-url"
    [] op = "send_video" -> "/api/send-video-url"
    [] op = "send_pdf" -> "/api/send-pdf-url"

LongOf(op) == op = "send_video"

\* what session.post can do: raise one of requests' exceptions, or hand back
\* a response with a status, a content type and a body
Bodies == {"object", "array", "malformed"}

Outcomes ==
  {[kind |-> k, status_code |-> 0, json |-> FALSE, body |-> ""] :
     k \in {"timeout", "connection_error", "request_exception"}}
  \cup {[kind |-> "response", status_code |-> c, json |-> j, body |-> b] :
          c \in {200, 404}, j \in BOOLEAN, b \in Bodies}

\* response.json() raised: requests.JSONDecodeError is a RequestException in
\* current releases of requests (caught on line 123) and a plain ValueError
\* in older ones (not caught)
JsonFailures ==
  {Raise("WhatsAppServiceError", 500, SomeMessage),
   Raise("ValueError", 0, SomeMessage)}

\* _post_json, lines 104-124, after session.post gave this outcome: the set
\* of ways the call can end
PostJson(outcome) ==
  CASE outcome.kind = "timeout" ->
         {Raise("WhatsAppServiceError", 408,
                <<"Timeout en solicitud a WhatsApp">>)}
    [] outcome.kind = "connection_error" ->
         {Raise("WhatsAppServiceError", 503,
                <<"No se puede conectar con el servidor de WhatsApp">>)}
    [] outcome.kind = "request_exception" ->
         {Raise("WhatsAppServiceError", 500, SomeMessage)}
    [] outcome.kind = "response" /\ outcome.status_code = 200 ->
         IF outcome.body = "malformed" THEN JsonFailures
         ELSE {Return(outcome.body)}
    [] outcome.kind = "response" /\ outcome.status_code # 200 ->
         IF ~outcome.json
         THEN {Raise("WhatsAppServiceError", outcome.status_code, SomeMessage)}
         ELSE IF outcome.body = "malformed" THEN JsonFailures
         ELSE IF outcome.body = "array"
         THEN {Raise("AttributeError", 0, SomeMessage)}
         ELSE {Raise("WhatsAppServiceError", outcome.status_code, SomeMessage)}

\* whatsapp_tools.py, lines 53-57 and alike: what a tool answers ("": the
\* call was made on the service itself)
ToolAnswer(tool, r) ==
  IF tool = "" THEN NoReply
  ELSE IF r.kind = "return"
  THEN [status |-> "success", data |-> r.value]
  ELSE IF r.exc = "WhatsAppServiceError"
  THEN [status |-> "error", message |-> r.message, status_code |-> r.status_code]
  ELSE [status |-> "error", message |-> r.message, status_code |-> 500]

\* the call ends: what it posted, what came back, how it ended
WhatsAppEnd(op, tool, given, url, posts, outcome, r) ==
  /\ whatsapp' = [posts |-> posts, op |-> op, tool |-> tool, phone |-> given,
                  url |-> url, outcome |-> outcome, result |-> r,
                  reply |-> ToolAnswer(tool, r)]
  /\ UNCHANGED <<purchases, orders, product, schema>>

\* send_image, send_audio, send_video, send_pdf (lines 139-222): normalise
\* the phone, validate the URL, post the payload.  given is the phone the
\* outermost call received, phone the one the service receives.
Send(op, tool, given, phone, url) ==
  LET normalized == normalize_phone(phone)
      checked == validate_public_url(url)
  IN IF normalized.kind = "raise"
     THEN WhatsAppEnd(op, tool, given, url, whatsapp.posts, NoOutcome, normalized)
     ELSE IF checked.kind = "raise"
     THEN WhatsAppEnd(op, tool, given, url, whatsapp.posts, NoOutcome, checked)
     ELSE /\ Len(whatsapp.posts) < MaxPosts
          /\ \E outcome \in Outcomes :
               \E r \in PostJson(outcome) :
                 WhatsAppEnd(op, tool, given, url,
                             Append(whatsapp.posts,
                                    [path |-> PathOf(op),
                                     phone |-> normalized.value,
                                     url |-> url, long |-> LongOf(op)]),
                             outcome, r)

\* a call made on the service itself
ServiceSend(op, phone, url) == Send(op, "", phone, phone, url)

\* send_whatsapp_image (lines 41-57) and send_whatsapp_pdf (131-145): the
\* tool prepends "+" itself; phone.startswith on None is an AttributeError
ToolSendPrefixed(op, tool, phone, url) ==
  IF ~isinstance_str(phone)
  THEN WhatsAppEnd(op, tool, phone, url, whatsapp.posts, NoOutcome,
                   Raise("AttributeError", 0, SomeMessage))
  ELSE Send(op, tool, phone,
            IF StartsWith(phone.str, <<"+">>)
            THEN phone ELSE Text(<<"+">> \o phone.str),
            url)

SendWhatsappImage(phone, url) ==
  ToolSendPrefixed("send_image", "send_whatsapp_image", phone, url)

SendWhatsappPdf(phone, url) ==
  ToolSendPrefixed("send_pdf", "send_whatsapp_pdf", phone, url)

\* send_whatsapp_video, lines 103-114
SendWhatsappVideo(phone, url) ==
  Send("send_video", "send_whatsapp_video", phone, phone, url)

\* send_whatsapp_audio, lines 75-86: send_audio takes no argument named
\* session, so the call is a TypeError before the service does anything
SendWhatsappAudio(phone, url) ==
  WhatsAppEnd("send_audio", "send_whatsapp_audio", phone, url, whatsapp.posts,
              NoOutcome, Raise("TypeError", 0, SomeMessage))

Phones ==
  {None, Text(<<>>), Text(<<"5", "7", "3">>), Text(<<"+", "5", "7", "3">>)}

Urls ==
  {None, Text(<<>>), [num |-> 5],
   Text(<<"f", "i", "l", "e", ":", "x">>),
   Text(<<"d", "a", "t", "a", ":", "x">>),
   Text(<<"h", "t", "t", "p", "s", ":", "x">>)}

NextWhatsApp ==
  \E phone \in Phones, url \in Urls :
    \/ \E op \in SendOps : ServiceSend(op, phone, url)
    \/ SendWhatsappImage(phone, url)
    \/ SendWhatsappAudio(phone, url)
    \/ SendWhatsappVideo(phone, url)
    \/ SendWhatsappPdf(phone, url)

SpecWhatsApp == Init /\ [][NextWhatsApp]_vars

\* the last call posted a request and session.post ended this way
Posted(kind) == whatsapp.outcome.kind = kind

\* the last call ended with the service's error of this status and, made
\* through a tool, the tool answered an error of this status
ErrorOfStatus(status) ==
  /\ whatsapp.result.kind = "raise"
  /\ whatsapp.result.exc = "WhatsAppServiceError"
  /\ whatsapp.result.status_code = status
  /\ whatsapp.tool # ""
     => /\ whatsapp.reply.status = "error"
        /\ whatsapp.reply.status_code = status

(***************************************************************************)
(* C24  A send whose request times out ends with an error of status 408,   *)
(* one that cannot connect with 503, any other request failure with 500,   *)
(* and a response other than 200 with an error of the response's own       *)
(* status code; in none of these cases does the service return or the tool *)
(* answer success.                                                         *)
(***************************************************************************)
C24_TransportErrorsMapped ==
  /\ Posted("timeout") => ErrorOfStatus(408)
  /\ Posted("connection_error") => ErrorOfStatus(503)
  /\ Posted("request_exception") => ErrorOfStatus(500)
  /\ (Posted("response") /\ whatsapp.outcome.status_code # 200)
     => ErrorOfStatus(whatsapp.outcome.status_code)

\* the part of C24 the code keeps: no failed request is reported as success
C24_NoFailureIsSuccess ==
  (\/ Posted("timeout") \/ Posted("connection_error")
   \/ Posted("request_exception")
   \/ (Posted("response") /\ whatsapp.outcome.status_code # 200))
  => /\ whatsapp.result.kind = "raise"
     /\ whatsapp.tool # "" => whatsapp.reply.status = "error"


\* the step is a call of one of the four senders, made on the service itself
ServiceCalled == whatsapp' # whatsapp /\ whatsapp'.tool = ""

\* the call of this step posted nothing
NothingPosted == whatsapp'.posts = whatsapp.posts

\* the call of this step ended with the service's error of this status
RaisedStatus(status) ==
  /\ whatsapp'.result.kind = "raise"
  /\ whatsapp'.result.exc = "WhatsAppServiceError"
  /\ whatsapp'.result.status_code = status

EmptyPhone(phone) == phone = None \/ phone = [str |-> <<>>]

BadUrl(url) == url = None \/ "str" \notin DOMAIN url \/ url = [str |-> <<>>]

LocalUrl(url) ==
  /\ ~BadUrl(url)
  /\ Len(url.str) >= 5
  /\ SubSeq(url.str, 1, 5) \in {<<"f", "i", "l", "e", ":">>,
                                <<"d", "a", "t", "a", ":">>}

(***************************************************************************)
(* C27  send_image, send_audio, send_video and send_pdf post nothing when  *)
(* their input is invalid: an empty phone ends with status 422; with a     *)
(* phone given, a URL that is empty or no string ends with status 422 and  *)
(* a URL starting with file: or data: with status 415.  With valid input   *)
(* exactly one request is posted, whose phone is the given one when it     *)
(* starts with + and the given one with + put in front otherwise.          *)
(***************************************************************************)
C27_InvalidInputPostsNothing ==
  [][ServiceCalled =>
       LET phone == whatsapp'.phone
           url == whatsapp'.url
       IN /\ EmptyPhone(phone) => (RaisedStatus(422) /\ NothingPosted)
          /\ (~EmptyPhone(phone) /\ BadUrl(url))
             => (RaisedStatus(422) /\ NothingPosted)
          /\ (~EmptyPhone(phone) /\ LocalUrl(url))
             => (RaisedStatus(415) /\ NothingPosted)
          /\ (~EmptyPhone(phone) /\ ~BadUrl(url) /\ ~LocalUrl(url))
             => /\ Len(whatsapp'.posts) = Len(whatsapp.posts) + 1
                /\ LET sent == whatsapp'.posts[Len(whatsapp'.posts)].phone.str
                   IN IF phone.str[1] = "+"
                      THEN sent = phone.str
                      ELSE sent = <<"+">> \o phone.str]_vars

\* a call on the service with a file: URL was refused with status 415
\* without a request
C27_Witness ==
  /\ whatsapp.tool = ""
  /\ whatsapp.op \in SendOps
  /\ whatsapp.url = [str |-> <<"f", "i", "l", "e", ":", "x">>]
  /\ whatsapp.result.status_code = 415
  /\ whatsapp.posts = <<>>

\* a call on the service posted a phone that had no + with + in front
C27_PrefixedWitness ==
  /\ whatsapp.tool = ""
  /\ whatsapp.op \in SendOps
  /\ whatsapp.phone = [str |-> <<"5", "7", "3">>]
  /\ Len(whatsapp.posts) = 1
  /\ whatsapp.posts[1].phone = [str |-> <<"+", "5", "7", "3">>]
  /\ whatsapp.outcome.kind = "response"


(***************************************************************************)
(* The order tools of the restaurant server (backend/src/server.py)        *)
(*                                                                         *)
(* order_service is a collaborator of the tools: what it returns is drawn  *)
(* among the outcomes the tools handle, and every mutating call the tools  *)
(* make on it is recorded in orders.mutations.  orders.latest is the       *)
(* customer's latest order as get_latest_order_by_phone returns it: None,  *)
(* or its status and the number of changes applied to its items.           *)
(***************************************************************************)
MaxMutations == 2

\* the statuses an order goes through, as the service may spell them
Statuses ==
  {"pending", "confirmed", "preparing", "CONFIRMED", "PREPARING",
   "delivered", "cancelled"}

\* a wrong list: a delivered order can still be changed
Modifiable_Delivered ==
  {"confirmed", "preparing", "CONFIRMED", "PREPARING", "delivered"}

\* lines 412, 443, 474: the list the three tools test order.status against
Modifiable == {"confirmed", "preparing", "CONFIRMED", "PREPARING"}

OrderTools == {"add_item_to_order", "remove_item_from_order", "update_item_in_order"}

\* lines 20-28: the import of the services succeeds or not, once
ImportServices(ok) ==
  /\ orders.available = "unknown"
  /\ orders' = [orders EXCEPT !.available = IF ok THEN "yes" ELSE "no"]
  /\ UNCHANGED <<purchases, whatsapp, product, schema>>

\* the restaurant moves on: the customer's latest order is now one in this
\* status (a new order was created, or the latest one changed its status)
OrderEvent(status) ==
  /\ orders.available # "unknown"
  /\ orders.latest # [status |-> status, changes |-> 0]
  /\ orders' = [orders EXCEPT !.latest = [status |-> status, changes |-> 0]]
  /\ UNCHANGED <<purchases, whatsapp, product, schema>>

\* the tool answers this text and leaves the order service alone
OrderAnswer(tool, text) ==
  orders' = [orders EXCEPT !.tool = tool, !.reply = text]

\* add_item_to_order (406-423), remove_item_from_order (437-453) and
\* update_item_in_order (468-487); has_data: item_data holds a field that
\* is not None (update_item_in_order, lines 476-478)
OrderToolCall(tool, has_data) ==
  /\ orders.available # "unknown"
  /\ IF orders.available = "no"
     THEN OrderAnswer(tool, "services_unavailable")
     ELSE \E found \in BOOLEAN :
            IF ~found
            THEN \* get_latest_order_by_phone raised
                 OrderAnswer(tool, "error")
            ELSE IF orders.latest = None
            THEN OrderAnswer(tool, "no_order")
            ELSE IF orders.latest.status \notin Modifiable
            THEN OrderAnswer(tool, "not_modifiable")
            ELSE IF tool = "update_item_in_order" /\ ~has_data
            THEN OrderAnswer(tool, "no_data")
            ELSE /\ Len(orders.mutations) < MaxMutations
                 /\ \E applied \in BOOLEAN :
                      orders' =
                        [orders EXCEPT
                           !.tool = tool,
                           !.mutations =
                              Append(@, [op |-> tool,
                                         status |-> orders.latest.status]),
                           !.latest.changes = IF applied THEN @ + 1 ELSE @,
                           !.reply = IF applied THEN "order" ELSE "error"]
  /\ UNCHANGED <<purchases, whatsapp, product, schema>>

NextOrders ==
  \/ \E ok \in BOOLEAN : ImportServices(ok)
  \/ \E status \in Statuses : OrderEvent(status)
  \/ \E tool \in OrderTools, has_data \in BOOLEAN : OrderToolCall(tool, has_data)

SpecOrders == Init /\ [][NextOrders]_vars

\* the step is a call of one of the three tools
OrderToolCalled == orders'.tool # orders.tool \/ orders'.reply # orders.reply
                   \/ orders'.mutations # orders.mutations

\* the step made a mutating call on the order service
Mutated == orders'.mutations # orders.mutations

\* the step left the order as it was
OrderUnchanged ==
  orders'.latest = orders.latest /\ orders'.mutations = orders.mutations

\* the tool of the step answered an error message
ErrorAnswered ==
  orders'.reply \in {"services_unavailable", "error", "no_order",
                     "not_modifiable", "no_data"}

MaxStock == 3

MaxStamps == 3

\* the quantities callers pass: negative, zero, and up to beyond any stock
Quantities == -1..(MaxStock + 1)

\* a wrong decrease: more than the stock can be taken
decrease_stock_Unchecked(stock_quantity, quantity) ==
  IF quantity <= 0
  THEN [raised |-> TRUE, stock_quantity |-> stock_quantity]
  ELSE [raised |-> FALSE, stock_quantity |-> stock_quantity - quantity]

\* Product.decrease_stock, lines 145-149: ValueError, or the new stock
decrease_stock(stock_quantity, quantity) ==
  IF quantity <= 0
  THEN [raised |-> TRUE, stock_quantity |-> stock_quantity]
  ELSE IF quantity > stock_quantity
  THEN [raised |-> TRUE, stock_quantity |-> stock_quantity]
  ELSE [raised |-> FALSE, stock_quantity |-> stock_quantity - quantity]

\* Product.increase_stock, lines 162-164: ValueError, or the new stock
increase_stock(stock_quantity, quantity) ==
  IF quantity <= 0
  THEN [raised |-> TRUE, stock_quantity |-> stock_quantity]
  ELSE [raised |-> FALSE, stock_quantity |-> stock_quantity + quantity]

\* Product(stock_quantity=n) with n >= 0, as the field declares (ge=0)
NewProduct(n) ==
  /\ ~product.built
  /\ product' = [NoProduct EXCEPT !.built = TRUE, !.stock_quantity = n]
  /\ UNCHANGED <<purchases, whatsapp, orders, schema>>

\* the call ends: the stock it leaves and, when it was accepted, the
\* timestamp refreshed (lines 150 and 165)
StockCall(op, quantity, out) ==
  /\ product.built
  /\ out.raised \/ product.stamps < MaxStamps
  /\ out.stock_quantity <= MaxStock
  /\ product' = [product EXCEPT
                   !.stock_quantity = out.stock_quantity,
                   !.stamps = IF out.raised THEN @ ELSE @ + 1,
                   !.op = op, !.quantity = quantity, !.raised = out.raised]
  /\ UNCHANGED <<purchases, whatsapp, orders, schema>>

DecreaseStock(quantity) ==
  StockCall("decrease_stock", quantity,
            decrease_stock(product.stock_quantity, quantity))

IncreaseStock(quantity) ==
  StockCall("increase_stock", quantity,
            increase_stock(product.stock_quantity, quantity))

NextStock ==
  \/ \E n \in 0..MaxStock : NewProduct(n)
  \/ \E quantity \in Quantities : DecreaseStock(quantity)
  \/ \E quantity \in Quantities : IncreaseStock(quantity)

SpecStock == Init /\ [][NextStock]_vars

\* the step is a call of decrease_stock or increase_stock
StockCalled(op) == product.built /\ product' # product /\ product'.op = op

\* the call of the step raised and left the stock as it was
StockRefused ==
  product'.raised /\ product'.stock_quantity = product.stock_quantity

(***************************************************************************)
(* C26  On a Product built with a stock of at least 0, no sequence of      *)
(* increase_stock and decrease_stock calls makes stock_quantity negative:  *)
(* decrease_stock with a quantity of 0 or less, or greater than the stock, *)
(* and increase_stock with a quantity of 0 or less, raise and leave the    *)
(* stock unchanged; every other call changes the stock by exactly the      *)
(* quantity, down or up.                                                   *)
(***************************************************************************)
C26_StockNeverNegative ==
  [][/\ product'.stock_quantity >= 0
     /\ StockCalled("decrease_stock") =>
          LET q == product'.quantity
          IN IF q <= 0 \/ q > product.stock_quantity
             THEN StockRefused
             ELSE /\ ~product'.raised
                  /\ product'.stock_quantity = product.stock_quantity - q
     /\ StockCalled("increase_stock") =>
          LET q == product'.quantity
          IN IF q <= 0
             THEN StockRefused
             ELSE /\ ~product'.raised
                  /\ product'.stock_quantity = product.stock_quantity + q]_vars

\* a decrease beyond the stock was refused after an accepted decrease had
\* emptied the stock
C26_Witness ==
  /\ product.built
  /\ product.op = "decrease_stock"
  /\ product.raised
  /\ product.quantity > 0
  /\ product.stock_quantity = 0
  /\ product.stamps > 0


(***************************************************************************)
(* DatabaseService.create_tables, drop_tables and the table script         *)
(*                                                                         *)
(* schema.tables holds the tables of the SQLModel models present in the    *)
(* database, schema.issued the DDL the last call issued, schema.error the  *)
(* exception drop_tables or create_tables raised in it.                    *)
(***************************************************************************)
\* class Environment
Environments == {"development", "staging", "production", "test"}

PRODUCTION == "production"

\* SQLModel.metadata.tables: User, Product, ProductSale, Log
ModelTables == {"users", "products", "product_sales", "logs"}

\* a wrong guard: no environment is protected
DropBlocked_Never(environment) == environment # environment

\* drop_tables, line 192: settings.ENVIRONMENT == Environment.PRODUCTION
DropBlocked(environment) == environment = PRODUCTION

\* settings = Settings(): the environment is fixed for the life of the
\* process
LoadSettings(environment) ==
  /\ schema.environment = "unset"
  /\ schema' = [schema EXCEPT !.environment = environment]
  /\ UNCHANGED <<purchases, whatsapp, orders, product>>

\* a DDL statement over the model tables ran to its end, or failed having
\* done only part of its work
DdlResults(before, after) ==
  {[tables |-> after, error |-> ""]}
  \cup {[tables |-> t, error |-> "SQLAlchemyError"] :
          t \in {x \in SUBSET ModelTables :
                   \/ before \subseteq x /\ x \subseteq after
                   \/ after \subseteq x /\ x \subseteq before} \ {after}}

\* drop_tables, lines 188-201, on an initialised engine: the ways it ends
drop_tables(environment, tables) ==
  IF DropBlocked(environment)
  THEN {[tables |-> tables, error |-> "RuntimeError", issued |-> {}]}
  ELSE {[tables |-> r.tables, error |-> r.error, issued |-> {"drop_all"}] :
          r \in DdlResults(tables, {})}

\* create_tables, lines 170-179, on an initialised engine
create_tables(tables) ==
  {[tables |-> r.tables, error |-> r.error, issued |-> {"create_all"}] :
     r \in DdlResults(tables, ModelTables)}

SchemaEnd(op, out) ==
  /\ schema' = [schema EXCEPT !.op = op, !.tables = out.tables,
                              !.issued = out.issued, !.error = out.error]
  /\ UNCHANGED <<purchases, whatsapp, orders, product>>

\* database_service.drop_tables()
DropTables ==
  /\ schema.environment # "unset"
  /\ \E out \in drop_tables(schema.environment, schema.tables) :
       SchemaEnd("drop_tables", out)

\* database_service.create_tables()
CreateTables ==
  /\ schema.environment # "unset"
  /\ \E out \in create_tables(schema.tables) : SchemaEnd("create_tables", out)

\* scripts/create_database_tables.py, create_tables(force), lines 190-259:
\* with force the tables are dropped first; any exception ends the script,
\* which then creates nothing; without force only missing tables are created.
\* healthy: health_check found the database (lines 201-203)
ScriptCreateTables(force, healthy) ==
  /\ schema.environment # "unset"
  /\ LET op == IF force THEN "script_force" ELSE "script"
     IN IF ~healthy
        THEN SchemaEnd("script_unhealthy",
                       [tables |-> schema.tables, error |-> "", issued |-> {}])
        ELSE IF force
        THEN \E dropped \in drop_tables(schema.environment, schema.tables) :
               IF dropped.error # ""
               THEN SchemaEnd(op, dropped)
               ELSE \E created \in create_tables(dropped.tables) :
                      SchemaEnd(op, [created EXCEPT
                                       !.issued = {"drop_all", "create_all"}])
        ELSE IF ModelTables \subseteq schema.tables
        THEN SchemaEnd(op, [tables |-> schema.tables, error |-> "",
                            issued |-> {}])
        ELSE \E created \in create_tables(schema.tables) : SchemaEnd(op, created)

NextSchema ==
  \/ \E environment \in Environments : LoadSettings(environment)
  \/ DropTables
  \/ CreateTables
  \/ \E force \in BOOLEAN, healthy \in BOOLEAN :
       ScriptCreateTables(force, healthy)

SpecSchema == Init /\ [][NextSchema]_vars

\* the step is a call that reaches drop_tables: a direct call, or the table
\* script in force mode
DropReached ==
  /\ schema.environment # "unset"
  /\ schema' # schema
  /\ schema'.op \in {"drop_tables", "script_force"}

(***************************************************************************)
(* C28  With PRODUCTION as the configured environment no table is ever     *)
(* dropped: drop_tables, called directly or by the table script in force   *)
(* mode, raises its RuntimeError without issuing the drop, and the schema  *)
(* is after the call what it was before.                                   *)
(***************************************************************************)
C28_NoDropInProduction ==
  [][schema.environment = "production"
     => /\ schema.tables \subseteq schema'.tables
        /\ DropReached
           => /\ schema'.error = "RuntimeError"
              /\ "drop_all" \notin schema'.issued
              /\ schema'.tables = schema.tables]_vars

\* in production the table script in force mode was stopped by drop_tables
\* while tables were there to drop
C28_Witness ==
  /\ schema.environment = "production"
  /\ schema.op = "script_force"
  /\ schema.error = "RuntimeError"
  /\ schema.issued = {}
  /\ schema.tables = ModelTables


(***************************************************************************)
(* C29  As stated: the record a save_purchase call returns has an id at    *)
(* least that of the row the call inserted, and equal to it exactly when   *)
(* no other INSERT into the table was committed between the call's commit  *)
(* and its read-back.                                                      *)
(***************************************************************************)
C29_Original ==
  \A p \in Procs :
    Returned(p, "save_purchase")
    => /\ result[p].value.id >= own[p]
       /\ result[p].value.id = own[p] <=> ~overtaken[p]

(***************************************************************************)
(* C29  Amended: under any interleaving of save_purchase calls the record  *)
(* a call returns has an id at least that of the row the call inserted,    *)
(* never an older row, and equal to it exactly when the table holds, at    *)
(* the read-back, no committed row with a higher id: the ids are drawn at  *)
(* the INSERT, so a later INSERT committed before the call's own commit    *)
(* is returned as well, and an earlier INSERT committed after it is not.   *)
(***************************************************************************)
C29_ReadBackNeverOlderThanOwn ==
  [][\A p \in Procs :
       (/\ pc[p] = "sp_select"
        /\ args[p].op = "save_purchase"
        /\ pc'[p] = "done"
        /\ result'[p].kind = "return")
       => /\ own[p] > 0
          /\ result'[p].value.id >= own[p]
          /\ result'[p].value.id = own[p]
             <=> ~\E r \in db[args[p].table] : r.id > own[p]]_vars

\* a call returned a newer row than its own although nothing was committed
\* between its commit and its read-back
C29_Witness ==
  \E p \in Procs :
    /\ Returned(p, "save_purchase")
    /\ own[p] > 0
    /\ result[p].value.id > own[p]
    /\ ~overtaken[p]

\* a call returned its own row although another INSERT was committed between
\* its commit and its read-back
C29_OvertakenWitness ==
  \E p \in Procs :
    /\ Returned(p, "save_purchase")
    /\ result[p].value.id = own[p]
    /\ overtaken[p]


\* the step is the read-back of p's save_purchase, which failed: the SELECT
\* raised or found no row
ReadBackFailed(p) ==
  /\ pc[p] = "sp_select"
  /\ pc'[p] = "done"
  /\ result'[p].kind = "raise"

\* the rows of every table, counted
Rows(database) == [t \in TableNames |-> Cardinality(database[t])]

(***************************************************************************)
(* C30  save_purchase commits its INSERT before it reads the row back: a   *)
(* call at its read-back has nothing pending, and a read-back that fails,  *)
(* by raising or by finding no row, ends the call with an error and takes  *)
(* no row out of any table.  Nothing is retried: a call issues one INSERT  *)
(* at most, and once it has ended nothing more happens for its caller      *)
(* until the caller calls again; every commit adds exactly one row, so a   *)
(* repeated call adds one more row for each INSERT that is committed.      *)
(***************************************************************************)
C30_CommitPrecedesReadBack ==
  [][\A p \in Procs :
       LET table == args[p].table
       IN /\ pc[p] = "sp_select"
             => /\ sess[p].pending = {}
                /\ committed[table] > 0
                /\ own[p] > 0
          /\ ReadBackFailed(p)
             => /\ db' = db
                /\ committed' = committed
                /\ pc'[p] = "done"
          /\ own'[p] # own[p] /\ own'[p] # 0
             => /\ pc[p] = "sp_insert"
                /\ own[p] = 0
                /\ seq' = [seq EXCEPT ![table] = @ + 1]
          /\ (pc[p] = "done" /\ pc'[p] # "done") => calls' = calls + 1
          /\ (pc[p] = "sp_commit" /\ pc'[p] = "sp_select")
             => /\ Rows(db') = [Rows(db) EXCEPT ![table] = @ + 1]
                /\ \E r \in db'[table] : r.id = own[p]]_vars

\* a caller repeated save_purchase after a read-back that raised: both of
\* its INSERTs are rows of the table and neither call returned
C30_Witness ==
  \E p \in Procs :
    /\ Ended(p, "save_purchase")
    /\ result[p].kind = "raise"
    /\ readAt[p] # NoRead
    /\ own[p] = 2
    /\ {r.id : r \in db[args[p].table]} = {1, 2}
    /\ committed[args[p].table] = 2
    /\ savedOk[args[p].table] = 0

=============================================================================
